---- MODULE Spec2Model ----
(***************************************************************************)
(* A model of the bigfloat package (tihomirmagdic/bigfloat): the literal   *)
(* analyzer (stranalyzer.Analyze) and the BigFloat value with its          *)
(* mutators and arithmetic.                                                *)
(*                                                                         *)
(* A BigFloat holds one Analysis record {Norm []byte, Sign, Decimals, Len}.*)
(* Norm is a Go slice: a window (offset, length, capacity) on a backing    *)
(* array.  Struct assignment (f.analysis = b.analysis, Copy) copies the    *)
(* slice header only, so two values can share one backing array.  The      *)
(* model therefore keeps an explicit heap of backing arrays and an object  *)
(* table; every operation is a function Store -> Store that performs the   *)
(* reads, writes, re-slicings and appends of the Go code in the same order.*)
(* Bytes are modelled by their numeric value ('0' is 48).                  *)
(***************************************************************************)
EXTENDS Integers, Sequences, FiniteSets, TLC

VARIABLES S, pc, in, out

vars == <<S, pc, in, out>>

\* ---------------------------------------------------------------- bytes
Ch0 == 48
Ch5 == 53
Ch9 == 57
ChPlus == 43
ChMinus == 45
ChDot == 46
ChSpace == 32
ChUpperE == 69
ChLowerE == 101
ChLowerA == 97

Max(x, y) == IF x > y THEN x ELSE y
Min(x, y) == IF x < y THEN x ELSE y

RECURSIVE Pow10Int(_)
Pow10Int(n) == IF n <= 0 THEN 1 ELSE 10 * Pow10Int(n - 1)

\* fill(length, value): a sequence of length copies of value
Fill(length, value) == [i \in 1..length |-> value]

\* add(a, value) applied to the bytes of a
AddBytes(bs, value) == [i \in 1..Len(bs) |-> bs[i] + value]

\* reverse(chars)
Reverse(bs) == [i \in 1..Len(bs) |-> bs[Len(bs) + 1 - i]]

\* A divmod10 that drops the carry
Divmod10NoCarry(a) == <<0, a % 10>>

\* divmod10(a) as <<d, m>>
Divmod10(a) == <<a \div 10, a % 10>>

\* ---------------------------------------------------------------- heap
\* A slice header; arr = 0 is the nil slice.
NilSlice == [arr |-> 0, off |-> 0, len |-> 0, cap |-> 0]

\* The zero value &BigFloat{} / stranalyzer.Analysis{}
ZeroValue == [Norm |-> NilSlice, Sign |-> 0, Decimals |-> 0, Len |-> 0]

\* heap: the backing arrays; obj: the BigFloat objects; panic: a panic was raised
EmptyStore == [heap |-> <<>>, obj |-> <<>>, panic |-> FALSE]

\* Size classes of the Go allocator for small objects (runtime/sizeclasses.go)
RoundUpSize(n) ==
    IF n <= 32 THEN 8 * ((n + 7) \div 8)
    ELSE IF n <= 128 THEN 16 * ((n + 15) \div 16)
    ELSE n

\* Capacity chosen by append when the old capacity is too small
\* (runtime.growslice for 1-byte elements, old capacity below 256)
GrowCap(oldCap, newLen) ==
    RoundUpSize(IF newLen > 2 * oldCap THEN newLen ELSE 2 * oldCap)

\* The bytes a slice shows
Bytes(St, sl) == [i \in 1..sl.len |-> St.heap[sl.arr][sl.off + i]]

\* make([]byte, len(bs), cap) holding bs: the new array is the last of the heap
Alloc(St, bs, cap) ==
    [St EXCEPT !.heap = Append(@, bs \o Fill(cap - Len(bs), 0))]

LastSlice(St, len) ==
    [arr |-> Len(St.heap), off |-> 0, len |-> len, cap |-> Len(St.heap[Len(St.heap)])]

\* s[lo:hi]
SubSlice(sl, lo, hi) ==
    [arr |-> sl.arr, off |-> sl.off + lo, len |-> hi - lo, cap |-> sl.cap - lo]

\* s[i] = b  (i counted from 0)
WriteAt(St, sl, i, b) == [St EXCEPT !.heap[sl.arr][sl.off + i + 1] = b]

\* append(sl, bs...): in place when the capacity allows, otherwise into a new array.
\* Result: the store and the returned slice header.
AppendBytes(St, sl, bs) ==
    IF Len(bs) = 0 THEN [S |-> St, sl |-> sl]
    ELSE IF sl.len + Len(bs) <= sl.cap
    THEN [S |-> [St EXCEPT !.heap[sl.arr] =
                    [i \in 1..Len(@) |->
                        IF i > sl.off + sl.len /\ i <= sl.off + sl.len + Len(bs)
                        THEN bs[i - sl.off - sl.len] ELSE @[i]]],
          sl |-> [sl EXCEPT !.len = sl.len + Len(bs)]]
    ELSE LET St1 == Alloc(St, Bytes(St, sl) \o bs, GrowCap(sl.cap, sl.len + Len(bs)))
         IN [S |-> St1, sl |-> LastSlice(St1, sl.len + Len(bs))]

\* A new object holding analysis an; its handle is Len(obj) of the result
NewObj(St, an) == [St EXCEPT !.obj = Append(@, an)]
Last(St) == Len(St.obj)

\* The digits an object shows: Norm[0:Len] seen through its own header
Digits(St, f) == Bytes(St, St.obj[f].Norm)

\* The observable value of an object
View(St, f) ==
    [digits |-> Digits(St, f), Sign |-> St.obj[f].Sign,
     Decimals |-> St.obj[f].Decimals, Len |-> St.obj[f].Len]

\* ---------------------------------------------------------------- calls
\* A call of a function or method of the package.  CallF(...) runs the body F
\* of the callee through the dispatcher Call, defined after the bodies.
RECURSIVE Call(_, _)
CallAnalyze(St, cs) == Call("Analyze", <<St, cs>>)
CallSetString(St, f, cs) == Call("SetString", <<St, f, cs>>)
CallSetInt64(St, f, n) == Call("SetInt64", <<St, f, n>>)
CallIsInt64(St, f, n) == Call("IsInt64", <<St, f, n>>)
CallSign(St, f, s) == Call("Sign", <<St, f, s>>)
CallNeg(St, f) == Call("Neg", <<St, f>>)
CallAbs(St, f) == Call("Abs", <<St, f>>)
CallSetDecimals(St, f, n) == Call("SetDecimals", <<St, f, n>>)
CallMul10(St, f, n) == Call("Mul10", <<St, f, n>>)
CallDiv10(St, f, n) == Call("Div10", <<St, f, n>>)
CallFrac(St, f) == Call("Frac", <<St, f>>)
CallTrunc(St, f, n) == Call("Trunc", <<St, f, n>>)
CallAddSameSign(St, f, a, b) == Call("AddSameSign", <<St, f, a, b>>)
CallSubMagnitude(St, f, a, b) == Call("SubMagnitude", <<St, f, a, b>>)
CallCompareWith(St, f, a, abs) == Call("CompareWith", <<St, f, a, abs>>)
CallCompare(St, f, a) == Call("Compare", <<St, f, a>>)
CallCompareAbs(St, f, a) == Call("CompareAbs", <<St, f, a>>)
CallAdd(St, f, a, b) == Call("Add", <<St, f, a, b>>)
CallSub(St, f, a, b) == Call("Sub", <<St, f, a, b>>)
CallRound(St, f, n) == Call("Round", <<St, f, n>>)
CallMul(St, f, a, b) == Call("Mul", <<St, f, a, b>>)
CallMulInt64(St, f, n) == Call("MulInt64", <<St, f, n>>)
CallDivLong(St5, f, a, b, aCopy, bCopy, remainder, bTrunc, decimalPlaces, maxDecimalPlaces) == Call("DivLong", <<St5, f, a, b, aCopy, bCopy, remainder, bTrunc, decimalPlaces, maxDecimalPlaces>>)
CallDivmod(St, f, a, b, remainder, bTrunc, decimalPlaces, maxDecimalPlaces) == Call("Divmod", <<St, f, a, b, remainder, bTrunc, decimalPlaces, maxDecimalPlaces>>)
CallDiv(St, f, a, b, decimalPlaces, maxDecimalPlaces) == Call("Div", <<St, f, a, b, decimalPlaces, maxDecimalPlaces>>)
CallDivMod(St, f, a, b) == Call("DivMod", <<St, f, a, b>>)
CallStringWith(St, f, forceSign) == Call("StringWith", <<St, f, forceSign>>)
CallString(St, f) == Call("String", <<St, f>>)
CallPow10(St, f, n) == Call("Pow10", <<St, f, n>>)

\* ---------------------------------------------------------------- analyzer
\* unicode.IsGraphic on the characters used here
Visible(c) == ~(c < 32 \/ c = 127)

\* unicode.IsDigit: ASCII digits and, outside ASCII, e.g. the Arabic-Indic digits
IsDigit(c) == (c >= Ch0 /\ c <= Ch9) \/ (c >= 1632 /\ c <= 1641)

\* byte(r): conversion of a rune to a byte keeps the low 8 bits
ByteOf(c) == c % 256

\* len(s) of the UTF-8 string holding the characters cs
RECURSIVE Utf8Len(_)
Utf8Len(cs) ==
    IF cs = <<>> THEN 0
    ELSE (IF Head(cs) < 128 THEN 1 ELSE IF Head(cs) < 2048 THEN 2 ELSE 3) + Utf8Len(Tail(cs))

\* strconv.ParseInt(s, 10, 0) with the error dropped: 0 on a syntax error
RECURSIVE DecValue(_)
DecValue(bs) ==
    IF bs = <<>> THEN 0 ELSE 10 * DecValue(SubSeq(bs, 1, Len(bs) - 1)) + (bs[Len(bs)] - Ch0)

ParseInt(bs) ==
    IF bs # <<>> /\ \A i \in 1..Len(bs) : bs[i] >= Ch0 /\ bs[i] <= Ch9
    THEN DecValue(bs) ELSE 0

ScanInit ==
    [signFound |-> FALSE, Sign |-> 1, decimalPointFound |-> FALSE, eFound |-> FALSE,
     eSign |-> 1, eSignFound |-> FALSE, digitFound |-> FALSE, nonZeroDigitFound |-> FALSE,
     normBuf |-> <<>>, eBuf |-> <<>>, Len |-> 0, Decimals |-> 0, err |-> FALSE]

\* One iteration of the scanning loop of Analyze on character c
ScanStep(st, c) ==
    IF ~Visible(c) THEN st
    ELSE IF c = ChPlus \/ c = ChMinus THEN
        IF st.signFound /\ ~st.eFound THEN [st EXCEPT !.err = TRUE]
        ELSE IF st.eSignFound /\ st.eFound THEN [st EXCEPT !.err = TRUE]
        ELSE IF st.digitFound /\ ~st.eFound THEN [st EXCEPT !.err = TRUE]
        ELSE IF st.decimalPointFound /\ ~st.eFound THEN [st EXCEPT !.err = TRUE]
        ELSE IF st.eFound
             THEN [st EXCEPT !.eSignFound = TRUE,
                             !.eSign = IF c = ChMinus THEN -1 ELSE @]
             ELSE [st EXCEPT !.signFound = TRUE,
                             !.Sign = IF c = ChMinus THEN -1 ELSE @]
    ELSE IF c = ChDot THEN
        IF st.decimalPointFound THEN [st EXCEPT !.err = TRUE]
        ELSE IF st.eFound THEN [st EXCEPT !.err = TRUE]
        ELSE IF ~st.nonZeroDigitFound
             THEN [st EXCEPT !.decimalPointFound = TRUE,
                             !.normBuf = Append(@, Ch0), !.Len = @ + 1]
             ELSE [st EXCEPT !.decimalPointFound = TRUE]
    ELSE IF c = ChUpperE \/ c = ChLowerE THEN
        IF st.eFound THEN [st EXCEPT !.err = TRUE]
        ELSE IF ~st.nonZeroDigitFound THEN [st EXCEPT !.err = TRUE]
        ELSE [st EXCEPT !.eFound = TRUE]
    ELSE IF IsDigit(c) THEN
        IF ~st.eFound THEN
            IF st.decimalPointFound \/ c # Ch0 \/ (st.digitFound /\ st.nonZeroDigitFound)
            THEN [st EXCEPT !.normBuf = Append(@, ByteOf(c)), !.Len = @ + 1,
                            !.Decimals = IF st.decimalPointFound THEN @ + 1 ELSE @,
                            !.nonZeroDigitFound = IF c # Ch0 THEN TRUE ELSE @,
                            !.digitFound = TRUE]
            ELSE [st EXCEPT !.digitFound = TRUE]
        ELSE [st EXCEPT !.eBuf = Append(@, ByteOf(c)), !.digitFound = TRUE]
    ELSE IF c = ChSpace THEN st
    ELSE [st EXCEPT !.err = TRUE]

\* The scanning loop: stops at the first error
RECURSIVE Scan(_, _, _)
Scan(st, cs, i) ==
    IF i > Len(cs) \/ st.err THEN st ELSE Scan(ScanStep(st, cs[i]), cs, i + 1)

\* Analyze(s): result {S, a, err}.  a is the returned Analysis; S.panic is set
\* when bytes.Repeat is called with a negative count.
Analyze(St, cs) ==
    LET \* return a, fmt.Errorf(...): a holds the fields set so far, Norm is nil
        Bad(st) ==
            [S |-> St,
             a |-> [Norm |-> NilSlice, Sign |-> st.Sign, Decimals |-> st.Decimals,
                    Len |-> st.Len],
             err |-> TRUE]
        \* The exponent eSign * eInt0 folded into a0; a0.Norm is the newest array of St1
        Fold(St1, a0, eSign, eInt0) ==
            IF eSign = 1 THEN
                LET dec1 == a0.Decimals - eInt0
                    eInt == IF dec1 < 0 THEN -dec1 ELSE eInt0 - dec1
                    dec2 == IF dec1 < 0 THEN 0 ELSE dec1
                    Appended(r) ==
                        [S |-> r.S,
                         a |-> [a0 EXCEPT !.Norm = r.sl, !.Decimals = dec2, !.Len = a0.Len + eInt],
                         err |-> FALSE]
                IN  IF eInt < 0
                    THEN [S |-> [St1 EXCEPT !.panic = TRUE], a |-> a0, err |-> FALSE]
                    ELSE Appended(AppendBytes(St1, a0.Norm, Fill(eInt, Ch0)))
            ELSE
                LET dec1 == a0.Decimals + eInt0
                    eInt == dec1 - a0.Len + 1
                    Prepended(r) ==
                        [S |-> r.S,
                         a |-> [a0 EXCEPT !.Norm = r.sl, !.Decimals = dec1, !.Len = a0.Len + eInt],
                         err |-> FALSE]
                    Zeroes(St2) ==
                        Prepended(AppendBytes(St2, LastSlice(St2, eInt), Bytes(St1, a0.Norm)))
                IN  IF dec1 >= a0.Len
                    THEN Zeroes(Alloc(St1, Fill(eInt, Ch0), eInt))
                    ELSE [S |-> St1, a |-> [a0 EXCEPT !.Decimals = dec1], err |-> FALSE]
        \* After the loop: normBuf buf0 is the newest array of St1
        Normed(St1, st, buf0, len0) ==
            LET a0 == [Norm |-> LastSlice(St1, Len(buf0)),
                       Sign |-> IF ~st.nonZeroDigitFound /\ st.Sign # 1 THEN 1 ELSE st.Sign,
                       Decimals |-> st.Decimals, Len |-> len0]
            IN  IF ~st.eFound THEN [S |-> St1, a |-> a0, err |-> FALSE]
                ELSE Fold(St1, a0, st.eSign, ParseInt(st.eBuf))
        Scanned(st) ==
            IF st.err THEN Bad(st)
            ELSE IF st.eFound /\ st.eBuf = <<>> THEN Bad(st)
            ELSE IF ~st.digitFound THEN Bad(st)
            ELSE
            LET buf0 == IF st.digitFound /\ st.Len = 0 THEN Append(st.normBuf, Ch0) ELSE st.normBuf
                len0 == IF st.digitFound /\ st.Len = 0 THEN st.Len + 1 ELSE st.Len
            IN  Normed(Alloc(St, buf0, Max(Utf8Len(cs), Len(buf0))), st, buf0, len0)
    IN  Scanned(Scan(ScanInit, cs, 1))

\* A SetString that stores the analysis before it looks at the error
SetStringEager(St, f, cs) ==
    LET Stored(r) == [S |-> [r.S EXCEPT !.obj[f] = r.a], err |-> r.err]
    IN  Stored(CallAnalyze(St, cs))

\* f.SetString(s): result {S, err}; f keeps its analysis on an error or a panic
SetString(St, f, cs) ==
    LET r == CallAnalyze(St, cs)
    IN  IF r.err THEN [S |-> St, err |-> TRUE]
        ELSE IF r.S.panic THEN [S |-> [St EXCEPT !.panic = TRUE], err |-> FALSE]
        ELSE [S |-> [r.S EXCEPT !.obj[f] = r.a], err |-> FALSE]

\* ---------------------------------------------------------------- mutators
\* strconv.FormatInt(n, 10) as characters
RECURSIVE FormatNat(_)
FormatNat(n) == IF n < 10 THEN <<Ch0 + n>> ELSE Append(FormatNat(n \div 10), Ch0 + (n % 10))

FormatInt(n) == IF n < 0 THEN <<ChMinus>> \o FormatNat(-n) ELSE FormatNat(n)

\* f.SetInt64(n)
SetInt64(St, f, n) == CallSetString(St, f, FormatInt(n)).S

\* A comparison with n that never succeeds
IsInt64Never(St, f, n) == FALSE

\* f.IsInt64(n): builds nFloat = SetInt64(n).SetDecimals(f.Decimals) and compares
\* Sign, Decimals, Len and the Norm bytes.  nFloat is garbage afterwards.
IsInt64(St, f, n) ==
    LET Same(T1, nf) ==
            /\ St.obj[f].Sign = T1.obj[nf].Sign
            /\ St.obj[f].Decimals = T1.obj[nf].Decimals
            /\ St.obj[f].Len = T1.obj[nf].Len
            /\ Bytes(St, St.obj[f].Norm) = Bytes(T1, T1.obj[nf].Norm)
        Built(T0, nf) ==
            Same(CallSetDecimals(CallSetInt64(T0, nf, n), nf, St.obj[f].Decimals), nf)
        Fresh(T0) == Built(T0, Last(T0))
    IN  Fresh(NewObj(St, ZeroValue))

\* f.Sign(s)
Sign(St, f, s) ==
    IF s = -1
    THEN LET St1 == [St EXCEPT !.obj[f].Sign = 1]
         IN [St1 EXCEPT !.obj[f].Sign = IF CallIsInt64(St1, f, 0) THEN 1 ELSE s]
    ELSE [St EXCEPT !.obj[f].Sign = s]

\* f.GetSign()
GetSign(St, f) == St.obj[f].Sign

\* f.Neg()
Neg(St, f) == CallSign(St, f, St.obj[f].Sign * (-1))

\* An Abs that reaches every object holding the digits of f
AbsShared(St, f) ==
    [St EXCEPT !.obj = [h \in 1..Len(St.obj) |->
                           IF St.obj[h].Norm.arr = St.obj[f].Norm.arr
                           THEN [St.obj[h] EXCEPT !.Sign = 1] ELSE St.obj[h]]]

\* f.Abs()
Abs(St, f) == CallSign(St, f, 1)

\* f.SetDecimals(n)
SetDecimals(St, f, n) ==
    LET a == St.obj[f]
        Appended(r) ==
            CallSign([r.S EXCEPT !.obj[f].Norm = r.sl, !.obj[f].Decimals = n,
                                 !.obj[f].Len = r.sl.len], f, a.Sign)
        Cut(sl) ==
            CallSign([St EXCEPT !.obj[f].Norm = sl, !.obj[f].Decimals = n,
                                !.obj[f].Len = sl.len], f, a.Sign)
    IN  IF n = a.Decimals THEN CallSign(St, f, a.Sign)
        ELSE IF n > a.Decimals
        THEN Appended(AppendBytes(St, a.Norm, Fill(n - a.Decimals, Ch0)))
        ELSE Cut(SubSlice(a.Norm, 0, a.Len - a.Decimals + n))

\* f.Copy(): a new object with a copy of the analysis struct (the slice header
\* is copied, the backing array is shared)
Copy(St, f) == NewObj(St, St.obj[f])

\* Locals of a function go out of scope: objects above handle n are dropped
Release(St, n) == [St EXCEPT !.obj = SubSeq(@, 1, n)]

\* f.Set(value) for value of type *BigFloat: f.analysis = value.Copy().analysis
Set(St, f, value) ==
    LET Assigned(St1) == Release([St1 EXCEPT !.obj[f] = St1.obj[Last(St1)]], Len(St.obj))
    IN  Assigned(Copy(St, value))

\* Number of leading '0' bytes among the first n bytes of bs
RECURSIVE LeadingZeroes(_, _, _)
LeadingZeroes(bs, n, z) ==
    IF n <= 0 \/ bs = <<>> \/ Head(bs) # z THEN 0
    ELSE 1 + LeadingZeroes(Tail(bs), n - 1, z)

\* f.Mul10(n)
Mul10(St, f, n) ==
    LET a == St.obj[f]
        len1 == a.Len + (n - a.Decimals)
        Trimmed(r, iTrim) ==
            [r.S EXCEPT !.obj[f] =
                [Norm |-> IF iTrim > 0 THEN SubSlice(r.sl, iTrim, r.sl.len) ELSE r.sl,
                 Sign |-> a.Sign, Decimals |-> 0,
                 Len |-> IF iTrim > 0 THEN len1 - iTrim ELSE len1]]
        Appended(r) == Trimmed(r, LeadingZeroes(Bytes(r.S, r.sl), len1, Ch0))
    IN  IF a.Decimals - n > 0 THEN [St EXCEPT !.obj[f].Decimals = a.Decimals - n]
        ELSE Appended(AppendBytes(St, a.Norm, Fill(n - a.Decimals, Ch0)))

\* A shift that leaves the value as it is
Div10Skipped(St, f, n) == St

\* A shift in the other direction
Div10Reversed(St, f, n) == CallMul10(St, f, n)

\* f.Div10(n)
Div10(St, f, n) ==
    LET a == St.obj[f]
        k == n - (a.Len - a.Decimals) + 1
        Prepended(r) ==
            [r.S EXCEPT !.obj[f].Norm = r.sl, !.obj[f].Len = a.Len + k,
                        !.obj[f].Decimals = a.Decimals + n]
        Zeroes(St1) == Prepended(AppendBytes(St1, LastSlice(St1, k), Bytes(St, a.Norm)))
    IN  IF a.Decimals + n >= a.Len
        THEN Zeroes(Alloc(St, Fill(k, Ch0), k))
        ELSE [St EXCEPT !.obj[f].Decimals = a.Decimals + n]

\* f.Pow10(n): '1' and n zeroes, or 1 shifted by -n places for n < 0
Pow10(St, f, n) ==
    LET Made(St1) ==
            [St1 EXCEPT !.obj[f] = [Norm |-> LastSlice(St1, n + 1), Len |-> n + 1,
                                    Decimals |-> 0, Sign |-> 1]]
    IN  IF n < 0 THEN CallDiv10(CallSetInt64(St, f, 1), f, -n)
        ELSE Made(Alloc(St, <<Ch0 + 1>> \o Fill(n, Ch0), n + 1))

\* f.Frac()
Frac(St, f) ==
    LET a == St.obj[f]
        Stored(St2, bs) ==
            IF \E i \in 1..Len(bs) : bs[i] # Ch0 THEN St2
            ELSE [St2 EXCEPT !.obj[f].Sign = 1]
        Prepended(r) ==
            Stored([r.S EXCEPT !.obj[f].Norm = r.sl, !.obj[f].Len = r.sl.len], Bytes(r.S, r.sl))
        Zero(St1) ==
            Prepended(AppendBytes(St1, LastSlice(St1, 1),
                                  Bytes(St, SubSlice(a.Norm, a.Len - a.Decimals, a.Norm.len))))
    IN  IF a.Len - a.Decimals > 0 THEN Zero(Alloc(St, <<Ch0>>, 1))
        ELSE St

\* A fill that writes nothing
FillRangeSkipped(St, sl, lo, hi, b) == St

\* Sets the bytes lo..hi-1 (counted from 0) of the slice to b
FillRange(St, sl, lo, hi, b) ==
    [St EXCEPT !.heap[sl.arr] =
        [i \in 1..Len(@) |-> IF i > sl.off + lo /\ i <= sl.off + hi THEN b ELSE @[i]]]

\* f.Trunc(WithDecimalPlaces(n)); Trunc() without option is n = f.Decimals
Trunc(St, f, n) ==
    LET a == St.obj[f]
    IN  IF n < 0 THEN [St EXCEPT !.panic = TRUE]
        ELSE CallSetDecimals(FillRange(St, a.Norm, a.Len - a.Decimals, a.Len, Ch0), f, n)

\* ---------------------------------------------------------------- alignment
\* align(a, b)
Align(St, a, b) ==
    LET ia == St.obj[a].Len - St.obj[a].Decimals
        ib == St.obj[b].Len - St.obj[b].Decimals
        maxIntLen == IF ib > ia THEN ib ELSE ia
        maxDecLen == IF St.obj[b].Decimals > St.obj[a].Decimals
                     THEN St.obj[b].Decimals ELSE St.obj[a].Decimals
    IN  [MaxIntLen |-> maxIntLen, MaxDecLen |-> maxDecLen, Len |-> maxIntLen + maxDecLen,
         corrections |->
            << [offset |-> St.obj[a].Decimals - maxDecLen, reverse |-> maxIntLen - ia],
               [offset |-> St.obj[b].Decimals - maxDecLen, reverse |-> maxIntLen - ib] >>]

\* read(pos, f, c, byteFix): digit at pos counted from the least significant end
Read(St, pos, f, c, byteFix) ==
    LET cPos == St.obj[f].Len - pos - c.offset - 1
    IN  IF cPos >= 0 /\ cPos < St.obj[f].Len
        THEN St.heap[St.obj[f].Norm.arr][St.obj[f].Norm.off + cPos + 1] + byteFix
        ELSE 0

\* A read from the most significant end that ignores the alignment
ReverseReadUnshifted(St, pos, f, c, byteFix) ==
    IF pos >= 0 /\ pos < St.obj[f].Len
    THEN St.heap[St.obj[f].Norm.arr][St.obj[f].Norm.off + pos + 1] + byteFix
    ELSE 0

\* reverse_read(pos, f, c, byteFix): digit at pos counted from the most significant end
ReverseRead(St, pos, f, c, byteFix) ==
    LET cPos == pos - c.reverse
    IN  IF cPos >= 0 /\ cPos < St.obj[f].Len
        THEN St.heap[St.obj[f].Norm.arr][St.obj[f].Norm.off + cPos + 1] + byteFix
        ELSE 0

\* Capacity of a slice of capacity cap after n single-byte appends from length 0
RECURSIVE CapAfterAppends(_, _)
CapAfterAppends(cap, n) ==
    IF n <= cap THEN cap ELSE CapAfterAppends(GrowCap(cap, cap + 1), n)

\* The trim of leading zeroes shared by add, sub and Mul: the raw digit buffer
\* raw (most significant first) keeps at least one digit before the decimals.
\* Result: the bytes of the backing array (cut bytes stay raw) and the cut.
TrimCount(raw, decLen) ==
    IF Len(raw) > decLen THEN LeadingZeroes(raw, Len(raw) - decLen - 1, 0) ELSE 0

\* ---------------------------------------------------------------- add / sub
\* Digits of |a| + |b|, least significant first, followed by the last carry
RECURSIVE AddLoop(_, _, _, _, _, _)
AddLoop(St, a, b, al, p, overflow) ==
    IF p >= al.Len THEN <<overflow>>
    ELSE LET sum == overflow + Read(St, p, a, al.corrections[1], -48)
                             + Read(St, p, b, al.corrections[2], -48)
         IN <<Divmod10(sum)[2]>> \o AddLoop(St, a, b, al, p + 1, Divmod10(sum)[1])

\* f.add(a, b): magnitudes added, sign of a
AddSameSign(St, f, a, b) ==
    LET \* St1: the store after the digit buffer raw was built, cut by iTrim
        Stored(St1, al, raw, iTrim) ==
            LET sl == SubSlice(LastSlice(St1, Len(raw)), iTrim, Len(raw))
            IN  [St1 EXCEPT !.obj[f] = [Norm |-> sl, Len |-> sl.len,
                                        Decimals |-> al.MaxDecLen, Sign |-> St.obj[a].Sign]]
        Trimmed(al, raw, iTrim) ==
            Stored(Alloc(St, Fill(iTrim, 0) \o AddBytes(SubSeq(raw, iTrim + 1, Len(raw)), 48),
                         al.Len + 1),
                   al, raw, iTrim)
        Summed(al, raw) == Trimmed(al, raw, TrimCount(raw, al.MaxDecLen))
        Aligned(al) == Summed(al, Reverse(AddLoop(St, a, b, al, 0, 0)))
    IN  Aligned(Align(St, a, b))

\* Digits of |a| - |b|, least significant first
RECURSIVE SubLoop(_, _, _, _, _, _)
SubLoop(St, a, b, al, i, overflow) ==
    IF i >= al.Len THEN <<>>
    ELSE LET v0 == Read(St, i, a, al.corrections[1], -48) - overflow
             v1 == Read(St, i, b, al.corrections[2], -48)
         IN  IF v0 < v1
             THEN <<(v0 + 10 - v1) % 256>> \o SubLoop(St, a, b, al, i + 1, 1)
             ELSE <<(v0 - v1) % 256>> \o SubLoop(St, a, b, al, i + 1, 0)

\* f.sub(a, b): |a| - |b| for |a| >= |b|, sign +1
SubMagnitude(St, f, a, b) ==
    LET \* St1: the store after the digit buffer raw was built, cut by iTrim
        Stored(St1, al, raw, iTrim) ==
            LET sl == SubSlice(LastSlice(St1, Len(raw)), iTrim, Len(raw))
            IN  [St1 EXCEPT !.obj[f] = [Norm |-> sl, Len |-> sl.len,
                                        Decimals |-> al.MaxDecLen, Sign |-> 1]]
        Trimmed(al, raw, iTrim) ==
            Stored(Alloc(St, Fill(iTrim, 0) \o AddBytes(SubSeq(raw, iTrim + 1, Len(raw)), 48),
                         CapAfterAppends(al.MaxIntLen + 1, al.Len)),
                   al, raw, iTrim)
        Subtracted(al, raw) == Trimmed(al, raw, TrimCount(raw, al.MaxDecLen))
        Aligned(al) == Subtracted(al, Reverse(SubLoop(St, a, b, al, 0, 0)))
    IN  Aligned(Align(St, a, b))

\* ---------------------------------------------------------------- compare
RECURSIVE CompareLoop(_, _, _, _, _, _)
CompareLoop(St, f, a, al, i, sign) ==
    IF i >= al.Len THEN 0
    ELSE LET v0 == ReverseRead(St, i, f, al.corrections[1], -48)
             v1 == ReverseRead(St, i, a, al.corrections[2], -48)
         IN  IF v0 < v1 THEN -sign
             ELSE IF v0 > v1 THEN sign
             ELSE CompareLoop(St, f, a, al, i + 1, sign)

\* f.compare(a, abs)
CompareWith(St, f, a, abs) ==
    IF abs \/ St.obj[f].Sign = St.obj[a].Sign
    THEN CompareLoop(St, f, a, Align(St, f, a), 0, IF abs THEN 1 ELSE St.obj[f].Sign)
    ELSE St.obj[f].Sign

\* A comparison that finds every pair equal
CompareAlwaysEqual(St, f, a) == 0

\* f.Compare(a)
Compare(St, f, a) == CallCompareWith(St, f, a, FALSE)

\* f.CompareAbs(a)
CompareAbs(St, f, a) == CallCompareWith(St, f, a, TRUE)

\* ---------------------------------------------------------------- Add / Sub
\* f.Add(a, b)
Add(St, f, a, b) ==
    IF CallIsInt64(St, a, 0) THEN [St EXCEPT !.obj[f] = St.obj[b]]
    ELSE IF CallIsInt64(St, b, 0) THEN [St EXCEPT !.obj[f] = St.obj[a]]
    ELSE IF St.obj[a].Sign = St.obj[b].Sign THEN CallAddSameSign(St, f, a, b)
    ELSE
        LET St1 == Copy(St, a)
            c1 == Last(St1)
            St2 == Copy(St1, b)
            c2 == Last(St2)
            cmp == CallCompareAbs(St2, a, b)
            f1 == IF cmp < 0 THEN c2 ELSE c1
            f2 == IF cmp < 0 THEN c1 ELSE c2
            sign == IF cmp < 0 THEN St.obj[b].Sign ELSE St.obj[a].Sign
        IN  IF cmp = 0
            THEN CallSetDecimals(CallSetInt64(St2, f, 0), f,
                             Max(St.obj[a].Decimals, St.obj[b].Decimals))
            ELSE CallSign(CallSubMagnitude(CallAbs(CallAbs(St2, f1), f2), f, f1, f2), f, sign)

\* A subtraction that adds its operands
SubAsAdd(St, f, a, b) == CallAdd(St, f, a, b)

\* f.Sub(a, b)
Sub(St, f, a, b) ==
    IF CallIsInt64(St, a, 0) THEN CallNeg([St EXCEPT !.obj[f] = St.obj[b]], f)
    ELSE IF CallIsInt64(St, b, 0) THEN [St EXCEPT !.obj[f] = St.obj[a]]
    ELSE
        LET St1 == Copy(St, a)
            c1 == Last(St1)
            St2 == Copy(St1, b)
            c2 == Last(St2)
        IN  IF St.obj[a].Sign # St.obj[b].Sign
            THEN CallSign(CallAddSameSign(CallAbs(CallAbs(St2, c1), c2), f, c1, c2), f, St.obj[a].Sign)
            ELSE
                LET cmp == CallCompareAbs(St2, a, b)
                    f1 == IF cmp < 0 THEN c2 ELSE c1
                    f2 == IF cmp < 0 THEN c1 ELSE c2
                    sign == IF cmp < 0 THEN St.obj[b].Sign * (-1) ELSE St.obj[a].Sign
                IN  IF cmp = 0
                    THEN CallSetDecimals(CallSetInt64(St2, f, 0), f,
                                     Max(St.obj[a].Decimals, St.obj[b].Decimals))
                    ELSE CallSign(CallSubMagnitude(CallAbs(CallAbs(St2, f1), f2), f, f1, f2), f, sign)

\* ---------------------------------------------------------------- Round
\* A rounding that drops the digits beyond n and never rounds up
RoundDown(St, f, n) ==
    LET a == St.obj[f]
    IN  IF n < 0 THEN [St EXCEPT !.panic = TRUE]
        ELSE IF n < a.Decimals
        THEN [St EXCEPT !.obj[f].Len = a.Len - (a.Decimals - n),
                        !.obj[f].Decimals = n,
                        !.obj[f].Norm = SubSlice(a.Norm, 0, a.Len - a.Decimals + n)]
        ELSE St

\* f.Round(n)
Round(St, f, n) ==
    LET a == St.obj[f]
        pos == a.Len - a.Decimals + n
        Added(T2) == CallSign(T2, f, T2.obj[f].Sign)
        \* c: the new value 10^(-n) with the sign of f
        Up(T0, c) ==
            Added(CallAdd(CallSign(CallDiv10(CallSetInt64(T0, c, 1), c, n), c, GetSign(T0, f)),
                          f, f, c))
        Fresh(T0) == Up(T0, Last(T0))
        Cut(St1, d) ==
            IF d >= Ch5 THEN Fresh(NewObj(St1, ZeroValue))
            ELSE CallSign(St1, f, St1.obj[f].Sign)
    IN  IF n < 0 THEN [St EXCEPT !.panic = TRUE]
        ELSE IF n < a.Decimals
        THEN Cut([St EXCEPT !.obj[f].Len = a.Len - (a.Decimals - n),
                            !.obj[f].Decimals = n,
                            !.obj[f].Norm = SubSlice(a.Norm, 0, pos)],
                 St.heap[a.Norm.arr][a.Norm.off + pos + 1])
        ELSE St

\* ---------------------------------------------------------------- Mul
\* mul(a, b): product of two ASCII digits, computed in bytes
MulDigit(a, b) == (((a - 48) % 256) * ((b - 48) % 256)) % 256

\* One sub product: digit d of b times the bytes as of a, least significant
\* first, followed by a non-zero last carry
RECURSIVE SubProductLoop(_, _, _, _)
SubProductLoop(d, as, ad, overflow) ==
    IF ad < 1 THEN (IF overflow # 0 THEN <<overflow>> ELSE <<>>)
    ELSE LET total == MulDigit(d, as[ad]) + overflow
         IN <<Divmod10(total)[2]>> \o SubProductLoop(d, as, ad - 1, Divmod10(total)[1])

\* The sub products of a * b with their offsets; digits '0' of b are skipped
SubProducts(as, bs, bLen) ==
    [bd \in {i \in 1..Len(bs) : bs[i] # Ch0} |->
        [offset |-> bLen - (bd - 1) - 1, product |-> SubProductLoop(bs[bd], as, Len(as), 0)]]

RECURSIVE SumSet(_, _)
SumSet(f, D) ==
    IF D = {} THEN 0
    ELSE LET x == CHOOSE x \in D : TRUE IN f[x] + SumSet(f, D \ {x})

\* A column digit read without the offset of the sub product
ColumnDigitUnshifted(sp, pos) ==
    IF pos >= 0 /\ pos < Len(sp.product) THEN sp.product[pos + 1] ELSE 0

\* Digit of a sub product in column pos
ColumnDigit(sp, pos) ==
    LET ppos == pos - sp.offset
    IN IF ppos >= 0 /\ ppos < Len(sp.product) THEN sp.product[ppos + 1] ELSE 0

\* Column sums of the sub products, least significant first, then the last carry
RECURSIVE SumLoop(_, _, _, _)
SumLoop(sps, lenP, pos, overflow) ==
    IF pos >= lenP THEN <<overflow % 256>>
    ELSE LET s == overflow + SumSet([bd \in DOMAIN sps |-> ColumnDigit(sps[bd], pos)],
                                    DOMAIN sps)
         IN <<Divmod10(s)[2]>> \o SumLoop(sps, lenP, pos + 1, Divmod10(s)[1])

\* Number of trailing zero bytes among the last n bytes of bs
TrailingZeroes(bs, n) == LeadingZeroes(Reverse(bs), n, 0)

\* f.Mul(a, b)
Mul(St, f, a, b) ==
    LET lenP == St.obj[a].Len + St.obj[b].Len
        dec0 == St.obj[a].Decimals + St.obj[b].Decimals
        \* St1: the store after the product buffer raw was built
        Stored(St1, raw, iLead, raw2, iTrail) ==
            LET sl == SubSlice(LastSlice(St1, Len(raw)), iLead, iLead + Len(raw2))
            IN  [St1 EXCEPT !.obj[f] = [Norm |-> sl, Len |-> sl.len, Decimals |-> dec0 - iTrail,
                                        Sign |-> St.obj[a].Sign * St.obj[b].Sign]]
        Cut(raw, iLead, raw2, iTrail) ==
            Stored(Alloc(St, Fill(iLead, 0) \o AddBytes(raw2, 48) \o Fill(iTrail, 0),
                         CapAfterAppends(lenP, lenP + 1)),
                   raw, iLead, raw2, iTrail)
        Trail(raw, iLead, raw1, iTrail) ==
            Cut(raw, iLead, SubSeq(raw1, 1, Len(raw1) - iTrail), iTrail)
        Lead(raw, iLead, raw1) ==
            Trail(raw, iLead, raw1, IF dec0 > 0 THEN TrailingZeroes(raw1, dec0) ELSE 0)
        Summed(raw, iLead) == Lead(raw, iLead, SubSeq(raw, iLead + 1, Len(raw)))
        Product(raw) == Summed(raw, TrimCount(raw, dec0))
    IN  IF CallIsInt64(St, a, 0) \/ CallIsInt64(St, b, 0)
        THEN CallSetDecimals(CallSetInt64(St, f, 0), f,
                             Max(St.obj[a].Decimals, St.obj[b].Decimals))
        ELSE IF CallIsInt64(St, a, 1) THEN [St EXCEPT !.obj[f] = St.obj[b]]
        ELSE IF CallIsInt64(St, a, -1) THEN CallNeg([St EXCEPT !.obj[f] = St.obj[b]], f)
        ELSE IF CallIsInt64(St, b, 1) THEN [St EXCEPT !.obj[f] = St.obj[a]]
        ELSE IF CallIsInt64(St, b, -1) THEN CallNeg([St EXCEPT !.obj[f] = St.obj[a]], f)
        ELSE Product(Reverse(SumLoop(SubProducts(Digits(St, a), Digits(St, b), St.obj[b].Len),
                                     lenP, 0, 0)))

\* strings.TrimRight(s, "0")
RECURSIVE TrimRightZeroes(_)
TrimRightZeroes(cs) ==
    IF cs # <<>> /\ cs[Len(cs)] = Ch0 THEN TrimRightZeroes(SubSeq(cs, 1, Len(cs) - 1)) ELSE cs

\* f.MulInt64(n)
MulInt64(St, f, n) ==
    IF n = 0
    THEN LET St1 == Alloc(St, Fill(St.obj[f].Decimals + 1, Ch0), St.obj[f].Decimals + 1)
         IN [St1 EXCEPT !.obj[f].Sign = 1,
                        !.obj[f].Norm = LastSlice(St1, St.obj[f].Decimals + 1),
                        !.obj[f].Len = St.obj[f].Decimals + 1]
    ELSE IF n = 1 THEN St
    ELSE IF n = -1
    THEN (IF ~CallIsInt64(St, f, 0) THEN [St EXCEPT !.obj[f].Sign = @ * (-1)] ELSE St)
    ELSE
        LET nStr == FormatInt(n)
            trimmedString == TrimRightZeroes(nStr)
            numZeroes == Len(nStr) - Len(trimmedString)
        IN  IF numZeroes > 0 /\ (trimmedString = <<49>> \/ trimmedString = <<ChMinus, 49>>)
            THEN CallMul10(IF trimmedString = <<ChMinus, 49>>
                       THEN [St EXCEPT !.obj[f].Sign = @ * (-1)] ELSE St, f, numZeroes)
            ELSE LET T0 == NewObj(St, ZeroValue)
                     nf == Last(T0)
                 IN CallMul(CallSetInt64(T0, nf, n), f, f, nf)

\* ---------------------------------------------------------------- divmod
\* Default of the option maxDecimalPlaces
DefaultMaxDecimalPlaces == 10000

\* Length of the divisor prefix used for the estimate of a quotient digit
EstimateLen == 5

\* A lookup that always returns the index of the first fractional digit
MapGetZero(m, k) == 0

\* remIndxMap: a set of entries {k: remainder string, v: index}
MapHas(m, k) == \E e \in m : e.k = k
MapGet(m, k) == (CHOOSE e \in m : e.k = k).v

\* A map store that records the index after the digit instead of before it
MapPutNext(m, k, v) == {e \in m : e.k # k} \cup {[k |-> k, v |-> v + 1]}

MapPut(m, k, v) == {e \in m : e.k # k} \cup {[k |-> k, v |-> v]}

\* bytes.Repeat(bs, count)
RECURSIVE Repeat(_, _)
Repeat(bs, count) == IF count <= 0 THEN <<>> ELSE bs \o Repeat(bs, count - 1)

\* A cap test that lets one more fractional digit through
AtCapLate(decimals, maxDecimalPlaces) == decimals > maxDecimalPlaces

\* if decimals >= ro.maxDecimalPlaces { break }
AtCap(decimals, maxDecimalPlaces) == decimals >= maxDecimalPlaces

\* The long division loop.  C: the values fixed before the loop; L: the loop
\* variables.  Returns the loop variables at the break.
RECURSIVE DivLoop(_, _)
DivLoop(C, L) ==
    LET beyond == L.i >= C.aBuf.len
        digit == IF beyond THEN Ch0 ELSE L.St.heap[C.aBuf.arr][C.aBuf.off + L.i + 1]
        bDec == L.bDecimals \/ beyond
        dpStr == Bytes(L.St, L.divPart)
        map1 == IF bDec THEN MapPut(L.remIndxMap, dpStr, L.decimals) ELSE L.remIndxMap
        decimals1 == IF bDec THEN L.decimals + 1 ELSE L.decimals
        \* The quotient digit divInt is appended; St8, divPart3: store and divPart.
        \* e: divPart before the subtraction and the estimate, kept in the log
        Emit(St8, divPart3, divInt, e) ==
            LET emit == divInt > 0 \/ Len(L.result) > 0 \/ bDec
                result1 == IF emit
                           THEN (IF bDec /\ Len(L.result) = 0 THEN <<0, divInt>> ELSE
                                 Append(L.result, divInt))
                           ELSE L.result
                L1 == [St |-> St8, i |-> L.i, divPart |-> divPart3, result |-> result1,
                       bDecimals |-> bDec, remIndxMap |-> map1,
                       repDecimalsInd |-> L.repDecimalsInd, decimals |-> decimals1,
                       log |-> Append(L.log, [part |-> e.part, est |-> e.est,
                                              digit |-> divInt, emitted |-> emit,
                                              rem |-> DecValue(Bytes(St8, divPart3))])]
            IN  IF emit /\ AtCap(decimals1, C.maxDecimalPlaces) THEN L1
                ELSE DivLoop(C, [L1 EXCEPT !.i = L.i + 1])
        \* divPart = remainder.analysis.Norm
        Subtracted(St7, divInt, e) == Emit(St7, St7.obj[C.remainder].Norm, divInt, e)
        \* remainder.Sub(remainder, fProduct); fProduct goes out of scope
        Fixed(St6, fProduct, nObj, divInt, e) ==
            Subtracted(Release(CallSub(St6, C.remainder, C.remainder, fProduct), nObj),
                       divInt, e)
        \* if fProduct.Compare(remainder) == 1 { divInt--; fProduct.Sub(fProduct, bCopy) }
        Compared(St5, fProduct, nObj, divInt0, fix) ==
            Fixed(IF fix THEN CallSub(St5, fProduct, fProduct, C.bCopy) ELSE St5,
                  fProduct, nObj, IF fix THEN divInt0 - 1 ELSE divInt0,
                  [part |-> DecValue(Bytes(St5, St5.obj[C.remainder].Norm)),
                   est |-> divInt0])
        Assigned(St5, fProduct, nObj, divInt0) ==
            Compared(St5, fProduct, nObj, divInt0, CallCompare(St5, fProduct, C.remainder) = 1)
        \* *remainder = BigFloat{Norm: divPart, ...}
        Multiplied(St4, sl, fProduct, nObj, divInt0) ==
            Assigned([St4 EXCEPT !.obj[C.remainder] =
                         [Norm |-> sl, Len |-> sl.len, Decimals |-> 0, Sign |-> 1]],
                     fProduct, nObj, divInt0)
        \* fProduct := bCopy.Copy(); if divInt > 1 { fProduct.MulInt64(int64(divInt)) }
        Copied(St3, sl, nObj, divInt0) ==
            Multiplied(IF divInt0 > 1 THEN CallMulInt64(St3, Last(St3), divInt0) ELSE St3,
                       sl, Last(St3), nObj, divInt0)
        Guessed(St2, sl, divInt0) ==
            IF divInt0 > 0 THEN Copied(Copy(St2, C.bCopy), sl, Len(St2.obj), divInt0)
            ELSE Emit(St2, sl, 0, [part |-> DecValue(Bytes(St2, sl)), est |-> 0])
        \* r2: the store and divPart after the digit was appended to divPart
        Appended(r2) ==
            LET bLen == r2.S.obj[C.bCopy].Len
            IN  Guessed(r2.S, r2.sl,
                        IF r2.sl.len < bLen THEN 0
                        ELSE (ParseInt(Bytes(r2.S, SubSlice(r2.sl, 0,
                                         r2.sl.len - (bLen - C.cmpLen))))
                                 \div C.divPart2Int) % 256)
        \* St1: the store after *lastRemainder was assigned
        Saved(St1) ==
            Appended(IF dpStr = <<Ch0>>
                     THEN [S |-> WriteAt(St1, L.divPart, 0, digit), sl |-> L.divPart]
                     ELSE AppendBytes(St1, L.divPart, <<digit>>))
    IN  IF (bDec /\ dpStr = <<Ch0>>) \/ (C.decimalsGoal > 0 /\ L.decimals = C.decimalsGoal)
        THEN [L EXCEPT !.bDecimals = bDec]
        ELSE IF bDec /\ MapHas(L.remIndxMap, dpStr)
        THEN [L EXCEPT !.bDecimals = bDec, !.repDecimalsInd = MapGet(L.remIndxMap, dpStr)]
        ELSE Saved([L.St EXCEPT !.obj[C.lastRemainder] =
                       [Norm |-> L.divPart, Len |-> L.divPart.len, Decimals |-> 0,
                        Sign |-> 1]])

\* The part of divmod after the shortcuts: long division and the fix of the
\* result to the target decimals
DivLong(St5, f, a, b, aCopy, bCopy, remainder, bTrunc, decimalPlaces, maxDecimalPlaces) ==
    LET decimalsGoal == IF decimalPlaces >= 0 THEN decimalPlaces + 1 ELSE decimalPlaces
        \* *remainder = *lastRemainder; remainder.Div10(a.Decimals + b.Decimals)
        Rounded(StC, lastRemainder) ==
            LET StD == [StC EXCEPT !.obj[remainder] = StC.obj[lastRemainder]]
            IN  CallDiv10(StD, remainder, StC.obj[a].Decimals + StC.obj[b].Decimals)
        \* StB: the store after the division result was assigned to f
        Created(StB, decimals, repeatDecimals, lastRemainder) ==
            [S |-> IF decimalPlaces >= 0 /\ decimalPlaces < decimals
                   THEN Rounded(IF bTrunc THEN CallTrunc(StB, f, 0)
                                ELSE CallSetDecimals(CallRound(StB, f, decimalPlaces),
                                                     f, decimalPlaces),
                                lastRemainder)
                   ELSE StB,
             rep |-> repeatDecimals, err |-> FALSE]
        \* rA: the store and the slice result after the fix to the target decimals
        Padded(rA, decimals, repeatDecimals, lastRemainder) ==
            Created([rA.S EXCEPT !.obj[f] =
                        [Norm |-> rA.sl, Len |-> rA.sl.len, Decimals |-> decimals,
                         Sign |-> rA.S.obj[a].Sign * rA.S.obj[b].Sign]],
                    decimals, repeatDecimals, lastRemainder)
        \* StA: the store holding the slice result built by the loop
        Built(StA, Lf, result, lastRemainder) ==
            LET repeat0 == IF Lf.repDecimalsInd >= 0 THEN Lf.decimals - Lf.repDecimalsInd
                           ELSE 0
                pad == decimalsGoal >= 0 /\ decimalsGoal > Lf.decimals
                repeatStr == IF repeat0 > 0
                             THEN SubSeq(result, Len(result) - repeat0 + 1, Len(result))
                             ELSE <<Ch0>>
                trailStr == SubSeq(Repeat(repeatStr,
                                          (decimalsGoal - Lf.decimals) \div Len(repeatStr) + 1),
                                   1, decimalsGoal - Lf.decimals)
            IN  Padded(IF pad THEN AppendBytes(StA, LastSlice(StA, Len(result)), trailStr)
                       ELSE [S |-> StA, sl |-> LastSlice(StA, Len(result))],
                       IF pad THEN decimalsGoal ELSE Lf.decimals,
                       IF pad /\ repeat0 > 0 THEN 0 ELSE repeat0,
                       lastRemainder)
        \* Lf: the loop variables at the break
        Looped(Lf, result, resultCap, lastRemainder) ==
            Built(Alloc(Lf.St, result, CapAfterAppends(resultCap, Len(result))),
                  Lf, result, lastRemainder)
        \* St7: the store after remainder and lastRemainder were set to 0
        Ready(St7, lastRemainder) ==
            LET aBuf == St7.obj[aCopy].Norm
                bLen == St7.obj[bCopy].Len
                maxLen == IF EstimateLen > bLen THEN bLen ELSE EstimateLen
                initLen == IF bLen - 1 > aBuf.len THEN aBuf.len ELSE bLen - 1
                C == [aBuf |-> aBuf, bCopy |-> bCopy, remainder |-> remainder,
                      lastRemainder |-> lastRemainder, decimalsGoal |-> decimalsGoal,
                      maxDecimalPlaces |-> maxDecimalPlaces,
                      divPart2Int |-> ParseInt(Bytes(St7, SubSlice(St7.obj[bCopy].Norm,
                                                                   0, maxLen))),
                      cmpLen |-> maxLen]
                \* iters: how many times the loop body was entered (i started at
                \* bLen - 1); log: one entry for every quotient digit computed
                Counted(res, iters, log) ==
                    [S |-> res.S, rep |-> res.rep, err |-> res.err, iters |-> iters,
                     log |-> log]
                Run(Lf) ==
                    Counted(Looped(Lf, AddBytes(Lf.result, 48),
                                   St7.obj[aCopy].Len + St7.obj[bCopy].Len, lastRemainder),
                            Lf.i - (bLen - 1) + 1, Lf.log)
            IN  Run(DivLoop(C, [St |-> St7, i |-> bLen - 1,
                                divPart |-> SubSlice(aBuf, 0, initLen),
                                result |-> <<>>, bDecimals |-> FALSE, remIndxMap |-> {},
                                repDecimalsInd |-> -1, decimals |-> 0, log |-> <<>>]))
        Fresh(T0) == Ready(CallSetInt64(T0, Last(T0), 0), Last(T0))
    IN  Fresh(NewObj(CallSetInt64(St5, remainder, 0), ZeroValue))

\* f.divmod(a, b, remainder, bTrunc, options): result {S, rep, err, iters, log}; on a
\* division by zero err is set and the returned pointer is nil
Divmod(St, f, a, b, remainder, bTrunc, decimalPlaces, maxDecimalPlaces) ==
    LET n == St.obj[a].Decimals + St.obj[b].Decimals
        Fixed(St1) ==
            [S |-> IF decimalPlaces >= 0 THEN CallSetDecimals(St1, f, decimalPlaces) ELSE St1,
             rep |-> 0, err |-> FALSE, iters |-> 0, log |-> <<>>]
        \* f.analysis = aCopy.analysis; f.Sign(a.analysis.Sign * b.analysis.Sign)
        Shortcut(St6) == Fixed(CallSign(St6, f, St6.obj[a].Sign * St6.obj[b].Sign))
        \* St5: the store after the decimals of both copies were eliminated
        Scaled(St5, aCopy, bCopy) ==
            IF CallIsInt64(St5, bCopy, 1)
            THEN Shortcut([St5 EXCEPT !.obj[f] = St5.obj[aCopy]])
            ELSE CallDivLong(St5, f, a, b, aCopy, bCopy, remainder, bTrunc,
                             decimalPlaces, maxDecimalPlaces)
        \* bCopy := b.Copy().Abs(), then both copies are multiplied by 10^n
        CopiedB(St2, aCopy, bCopy) ==
            Scaled(IF n > 0
                   THEN CallMul10(CallMul10(CallAbs(St2, bCopy), aCopy, n), bCopy, n)
                   ELSE CallAbs(St2, bCopy),
                   aCopy, bCopy)
        AbsA(St2, aCopy) == CopiedB(St2, aCopy, Last(St2))
        \* aCopy := a.Copy().Abs()
        CopiedA(St1) == AbsA(Copy(CallAbs(St1, Last(St1)), b), Last(St1))
    IN  IF CallIsInt64(St, a, 0) THEN Fixed(CallSetInt64(St, f, 0))
        ELSE IF CallIsInt64(St, b, 0) THEN [S |-> St, rep |-> 0, err |-> TRUE, iters |-> 0,
                                            log |-> <<>>]
        ELSE CopiedA(Copy(St, a))

\* f.Div(a, b, options...): result {S, rep, err, r}; r is the handle of the
\* remainder object the call creates
Div(St, f, a, b, decimalPlaces, maxDecimalPlaces) ==
    LET Result(res, r) ==
            [S |-> res.S, rep |-> res.rep, err |-> res.err, r |-> r, iters |-> res.iters,
             log |-> res.log]
        Fresh(T0) ==
            Result(CallDivmod(T0, f, a, b, Last(T0), FALSE, decimalPlaces, maxDecimalPlaces),
                   Last(T0))
    IN  Fresh(NewObj(St, ZeroValue))

\* f.DivMod(a, b): result {S, rep, err, r}
DivMod(St, f, a, b) ==
    LET Result(res, r) ==
            [S |-> res.S, rep |-> res.rep, err |-> res.err, r |-> r, iters |-> res.iters,
             log |-> res.log]
        Fresh(T0) ==
            Result(CallDivmod(T0, f, a, b, Last(T0), TRUE, 0, DefaultMaxDecimalPlaces),
                   Last(T0))
    IN  Fresh(NewObj(St, ZeroValue))

\* f.StringWith(ForceSign(forceSign)): result {str, panic}.  The integer part
\* is Norm[:Len-Decimals], the fraction Norm[Len-Decimals:] up to len(Norm);
\* a slice bound outside the array panics
StringWith(St, f, forceSign) ==
    LET a == St.obj[f]
        k == a.Len - a.Decimals
        sign == IF a.Sign = -1 THEN <<ChMinus>>
                ELSE IF forceSign /\ ~CallIsInt64(St, f, 0) THEN <<ChPlus>>
                ELSE <<>>
    IN  IF k < 0 \/ k > a.Norm.cap \/ (a.Decimals > 0 /\ k > a.Norm.len)
        THEN [str |-> <<>>, panic |-> TRUE]
        ELSE [str |-> sign \o Bytes(St, SubSlice(a.Norm, 0, k))
                        \o (IF a.Decimals > 0
                            THEN <<ChDot>> \o Bytes(St, SubSlice(a.Norm, k, a.Norm.len))
                            ELSE <<>>),
              panic |-> FALSE]

\* f.String()
String(St, f) == CallStringWith(St, f, FALSE)

\* The dispatcher: runs the body of the callee m on the arguments a
Call(m, a) ==
    CASE m = "Analyze" -> Analyze(a[1], a[2])
      [] m = "SetString" -> SetString(a[1], a[2], a[3])
      [] m = "SetInt64" -> SetInt64(a[1], a[2], a[3])
      [] m = "IsInt64" -> IsInt64(a[1], a[2], a[3])
      [] m = "Sign" -> Sign(a[1], a[2], a[3])
      [] m = "Neg" -> Neg(a[1], a[2])
      [] m = "Abs" -> Abs(a[1], a[2])
      [] m = "SetDecimals" -> SetDecimals(a[1], a[2], a[3])
      [] m = "Mul10" -> Mul10(a[1], a[2], a[3])
      [] m = "Div10" -> Div10(a[1], a[2], a[3])
      [] m = "Frac" -> Frac(a[1], a[2])
      [] m = "Trunc" -> Trunc(a[1], a[2], a[3])
      [] m = "AddSameSign" -> AddSameSign(a[1], a[2], a[3], a[4])
      [] m = "SubMagnitude" -> SubMagnitude(a[1], a[2], a[3], a[4])
      [] m = "CompareWith" -> CompareWith(a[1], a[2], a[3], a[4])
      [] m = "Compare" -> Compare(a[1], a[2], a[3])
      [] m = "CompareAbs" -> CompareAbs(a[1], a[2], a[3])
      [] m = "Add" -> Add(a[1], a[2], a[3], a[4])
      [] m = "Sub" -> Sub(a[1], a[2], a[3], a[4])
      [] m = "Round" -> Round(a[1], a[2], a[3])
      [] m = "Mul" -> Mul(a[1], a[2], a[3], a[4])
      [] m = "MulInt64" -> MulInt64(a[1], a[2], a[3])
      [] m = "DivLong" -> DivLong(a[1], a[2], a[3], a[4], a[5], a[6], a[7], a[8], a[9], a[10])
      [] m = "Divmod" -> Divmod(a[1], a[2], a[3], a[4], a[5], a[6], a[7], a[8])
      [] m = "Div" -> Div(a[1], a[2], a[3], a[4], a[5], a[6])
      [] m = "DivMod" -> DivMod(a[1], a[2], a[3], a[4])
      [] m = "StringWith" -> StringWith(a[1], a[2], a[3])
      [] m = "String" -> String(a[1], a[2])
      [] m = "Pow10" -> Pow10(a[1], a[2], a[3])

\* ---------------------------------------------------------------- inputs
\* Operands are parsed from the literals of the values sign * m / 10^k with
\* m in 0..MaxMant and k in 0..MaxDec.
MaxMant == 9
MaxDec == 1

\* Largest fixed decimalPlaces option tried by Div
MaxPlaces == 1

\* A small maxDecimalPlaces option, tried next to the default
CapPlaces == 3

\* The literal of sign * m / 10^k, e.g. Lit(-1, 5, 1) is "-0.5"
Lit(sign, m, k) ==
    LET ds == FormatNat(m)
        padded == Fill(Max(k + 1 - Len(ds), 0), Ch0) \o ds
        ip == SubSeq(padded, 1, Len(padded) - k)
        fp == SubSeq(padded, Len(padded) - k + 1, Len(padded))
    IN  (IF sign < 0 THEN <<ChMinus>> ELSE <<>>) \o ip
            \o (IF k > 0 THEN <<ChDot>> \o fp ELSE <<>>)

Operands == {Lit(sg, m, k) : sg \in {1, -1}, m \in 0..MaxMant, k \in 0..MaxDec}

\* n1, n2 parsed by SetString into new objects 1 and 2; n3 := &BigFloat{} is object 3
Operands3(c1, c2) ==
    LET Second(St1) == NewObj(CallSetString(NewObj(St1, ZeroValue), 2, c2).S, ZeroValue)
    IN  Second(CallSetString(NewObj(EmptyStore, ZeroValue), 1, c1).S)

\* The record kept of the calls made: op, dst, arg: the last call, its receiver
\* and its numeric argument; made: the first call when it produced a new value;
\* pair: the handles the program holds a value in; steps: the calls made
NoOut ==
    [op |-> "none", dst |-> 0, arg |-> 0, dp |-> 0, mdp |-> 0, rep |-> 0, err |-> FALSE,
     r |-> 0, steps |-> 0, made |-> [op |-> "none", dst |-> 0, err |-> FALSE], pair |-> {1}]

\* ---------------------------------------------------------------- division
\* The program: two operands are parsed, then one division writes n3.
Init ==
    /\ \E c1 \in Operands, c2 \in Operands : S = Operands3(c1, c2)
    /\ pc = "ready"
    /\ in = EmptyStore
    /\ out = NoOut

\* n3.DivMod(n1, n2)
DoDivMod ==
    LET Returned(res) ==
            /\ S' = res.S
            /\ out' = [op |-> "DivMod", dst |-> 3, dp |-> 0, mdp |-> DefaultMaxDecimalPlaces,
                       rep |-> res.rep, err |-> res.err, r |-> res.r,
                       iters |-> res.iters,
                       log |-> res.log]
    IN  /\ pc = "ready"
        /\ Returned(CallDivMod(S, 3, 1, 2))
        /\ in' = S
        /\ pc' = "done"

\* n3.Div(n1, n2, WithDivMaxDecimalPlaces(mdp)): auto mode
DoDivAuto ==
    LET Returned(res, mdp) ==
            /\ S' = res.S
            /\ out' = [op |-> "Div", dst |-> 3, dp |-> -1, mdp |-> mdp,
                       rep |-> res.rep, err |-> res.err, r |-> res.r,
                       iters |-> res.iters]
    IN  /\ pc = "ready"
        /\ \E mdp \in {CapPlaces, DefaultMaxDecimalPlaces} :
              Returned(CallDiv(S, 3, 1, 2, -1, mdp), mdp)
        /\ in' = S
        /\ pc' = "done"

\* n3.Div(n1, n2, WithDivDecimalPlaces(dp), WithDivMaxDecimalPlaces(mdp)),
\* with the smallest cap above dp and with the default cap
DoDivFixed ==
    LET Returned(res, dp, mdp) ==
            /\ S' = res.S
            /\ out' = [op |-> "Div", dst |-> 3, dp |-> dp, mdp |-> mdp,
                       rep |-> res.rep, err |-> res.err, r |-> res.r,
                       iters |-> res.iters]
    IN  /\ pc = "ready"
        /\ \E dp \in 0..MaxPlaces : \E mdp \in {dp + 1, DefaultMaxDecimalPlaces} :
              Returned(CallDiv(S, 3, 1, 2, dp, mdp), dp, mdp)
        /\ in' = S
        /\ pc' = "done"

Next == DoDivMod \/ DoDivAuto

Spec == Init /\ [][Next]_vars

NextFixed == DoDivFixed

SpecFixed == Init /\ [][NextFixed]_vars

\* n3.Div(n1, n2, options...) with every combination of decimalPlaces in
\* -1..MaxPlaces (-1: the option is not given) and maxDecimalPlaces in 1..CapPlaces
DoDivOptions ==
    LET Returned(res, dp, mdp) ==
            /\ S' = res.S
            /\ out' = [op |-> "Div", dst |-> 3, dp |-> dp, mdp |-> mdp,
                       rep |-> res.rep, err |-> res.err, r |-> res.r,
                       iters |-> res.iters, log |-> res.log]
    IN  /\ pc = "ready"
        /\ \E dp \in -1..MaxPlaces, mdp \in 1..CapPlaces :
              Returned(CallDiv(S, 3, 1, 2, dp, mdp), dp, mdp)
        /\ in' = S
        /\ pc' = "done"

NextCap == DoDivOptions \/ DoDivMod

SpecCap == Init /\ [][NextCap]_vars

\* Operands of a division by a divisor of up to seven digits: the estimate
\* of a quotient digit uses the first EstimateLen digits of the divisor
LongDividends ==
    {Lit(1, m, 0) : m \in {1, 5000, 123455, 199998, 900000, 999998, 1000080}}
        \cup {Lit(1, 15, 1)}

LongDivisors == {Lit(1, m, 0) : m \in {7, 12345, 100009, 123456, 199999, 999999}}

InitLong ==
    /\ \E c1 \in LongDividends, c2 \in LongDivisors : S = Operands3(c1, c2)
    /\ pc = "ready"
    /\ in = EmptyStore
    /\ out = NoOut

SpecLong == InitLong /\ [][NextCap]_vars

\* ---------------------------------------------------------------- parsing
\* Literals: [-] [integer digits] [. [fraction digits]] [E|e [+|-] [digits]]
MaxInt == 12
MaxFrac == 2
MaxExp == 3

FracParts == UNION {[1..n -> {Ch0, Ch5}] : n \in 0..MaxFrac}

Mantissas ==
    {mm \in [sign : {<<>>, <<ChMinus>>},
             ip : {<<>>} \cup {FormatNat(m) : m \in 0..MaxInt},
             dot : BOOLEAN,
             fp : FracParts] : mm.dot \/ mm.fp = <<>>}

Exponents ==
    {[mark |-> <<>>, sign |-> <<>>, digits |-> <<>>]} \cup
    [mark : {<<ChUpperE>>, <<ChLowerE>>},
     sign : {<<>>, <<ChPlus>>, <<ChMinus>>},
     digits : {<<>>} \cup {FormatNat(e) : e \in 0..MaxExp}]

\* The text of a literal
Text(mm, ex) ==
    mm.sign \o mm.ip \o (IF mm.dot THEN <<ChDot>> ELSE <<>>) \o mm.fp
        \o ex.mark \o ex.sign \o ex.digits

\* f := &BigFloat{}
InitParse ==
    /\ S = NewObj(EmptyStore, ZeroValue)
    /\ pc = "ready"
    /\ in = EmptyStore
    /\ out = NoOut

\* f.SetString(s)
DoSetString ==
    LET Returned(res, mm, ex) ==
            /\ S' = res.S
            /\ out' = [NoOut EXCEPT !.op = "SetString", !.dst = 1, !.err = res.err,
                                    !.steps = 1, !.made = [mant |-> mm, ex |-> ex]]
    IN  /\ pc = "ready"
        /\ \E mm \in Mantissas, ex \in Exponents :
              Returned(CallSetString(S, 1, Text(mm, ex)), mm, ex)
        /\ in' = S
        /\ pc' = "done"

NextParse == DoSetString

SpecParse == InitParse /\ [][NextParse]_vars

\* Texts: every string of up to MaxText characters of the alphabet
MaxText == 4

Alphabet == {ChPlus, ChMinus, ChDot, ChUpperE, ChLowerE, Ch0, Ch5, ChSpace, ChLowerA}

Texts == UNION {[1..n -> Alphabet] : n \in 0..MaxText}

\* a, err := stranalyzer.Analyze(s); out.made holds the text and the result
DoAnalyze ==
    LET Returned(r, cs) ==
            /\ S' = r.S
            /\ out' = [NoOut EXCEPT !.op = "Analyze", !.err = r.err, !.steps = 1,
                                    !.made = [text |-> cs,
                                              a |-> [digits |-> Bytes(r.S, r.a.Norm),
                                                     Sign |-> r.a.Sign,
                                                     Decimals |-> r.a.Decimals,
                                                     Len |-> r.a.Len]]]
    IN  /\ pc = "ready"
        /\ \E cs \in Texts : Returned(CallAnalyze(S, cs), cs)
        /\ in' = S
        /\ pc' = "done"

NextText == DoAnalyze

SpecText == InitParse /\ [][NextText]_vars

\* ---------------------------------------------------------------- arithmetic
\* The program: two operands are parsed, then one operation n_dst.op(n1, n2)
\* runs with the destination n1, n2 or the new value n3.

\* A result without repetend, error and remainder
Plain(St) == [S |-> St, rep |-> 0, err |-> FALSE, r |-> 0]

\* The record kept of n_dst.op(n1, n2): res is the result of the call, fresh
\* the result of the same call with the destination n3
Outcome(op, dst, dp, mdp, res, fresh) ==
    [op |-> op, dst |-> dst, arg |-> dp, dp |-> dp, mdp |-> mdp,
     rep |-> res.rep, err |-> res.err, r |-> res.r,
     fresh |-> [v |-> View(fresh.S, 3), rep |-> fresh.rep, err |-> fresh.err,
                rem |-> IF op = "DivMod" THEN View(fresh.S, fresh.r) ELSE <<>>,
                panic |-> fresh.S.panic],
     steps |-> 1, made |-> [op |-> op, dst |-> dst, err |-> res.err],
     pair |-> {1, 2, dst}]

\* n_dst.Add(n1, n2)
DoAdd ==
    /\ pc = "ready"
    /\ \E dst \in 1..3 :
          \E x, y \in {[d |-> d, res |-> Plain(CallAdd(S, d, 1, 2))] : d \in {dst, 3}} :
              /\ x.d = dst /\ y.d = 3
              /\ S' = x.res.S
              /\ out' = Outcome("Add", dst, 0, 0, x.res, y.res)
    /\ in' = S
    /\ pc' = "done"

\* n_dst.Sub(n1, n2)
DoSub ==
    /\ pc = "ready"
    /\ \E dst \in 1..3 :
          \E x, y \in {[d |-> d, res |-> Plain(CallSub(S, d, 1, 2))] : d \in {dst, 3}} :
              /\ x.d = dst /\ y.d = 3
              /\ S' = x.res.S
              /\ out' = Outcome("Sub", dst, 0, 0, x.res, y.res)
    /\ in' = S
    /\ pc' = "done"

\* n_dst.Mul(n1, n2)
DoMul ==
    /\ pc = "ready"
    /\ \E dst \in 1..3 :
          \E x, y \in {[d |-> d, res |-> Plain(CallMul(S, d, 1, 2))] : d \in {dst, 3}} :
              /\ x.d = dst /\ y.d = 3
              /\ S' = x.res.S
              /\ out' = Outcome("Mul", dst, 0, 0, x.res, y.res)
    /\ in' = S
    /\ pc' = "done"

\* n_dst.Div(n1, n2) and n_dst.Div(n1, n2, WithDivDecimalPlaces(MaxPlaces))
DoDiv ==
    /\ pc = "ready"
    /\ \E dst \in 1..3, dp \in {-1, MaxPlaces} :
          \E x, y \in {[d |-> d, res |-> CallDiv(S, d, 1, 2, dp, DefaultMaxDecimalPlaces)] :
                          d \in {dst, 3}} :
              /\ x.d = dst /\ y.d = 3
              /\ S' = x.res.S
              /\ out' = Outcome("Div", dst, dp, DefaultMaxDecimalPlaces, x.res, y.res)
    /\ in' = S
    /\ pc' = "done"

\* n_dst.DivMod(n1, n2)
DoDivModInto ==
    /\ pc = "ready"
    /\ \E dst \in 1..3 :
          \E x, y \in {[d |-> d, res |-> CallDivMod(S, d, 1, 2)] : d \in {dst, 3}} :
              /\ x.d = dst /\ y.d = 3
              /\ S' = x.res.S
              /\ out' = Outcome("DivMod", dst, 0, DefaultMaxDecimalPlaces, x.res, y.res)
    /\ in' = S
    /\ pc' = "done"

NextAlias == DoAdd \/ DoSub \/ DoMul \/ DoDiv \/ DoDivModInto

SpecAlias == Init /\ [][NextAlias]_vars

\* Terms of a sum: mantissas written with the digits 0, 1 and 9
MaxTermLen == 2
MaxTermDec == 2

TermMants == {DecValue(ds) : ds \in UNION {[1..n -> {Ch0, Ch0 + 1, Ch9}] : n \in 1..MaxTermLen}}

Terms == {Lit(sg, m, k) : sg \in {1, -1}, m \in TermMants, k \in 0..MaxTermDec}

InitTerms ==
    /\ \E c1 \in Terms, c2 \in Terms : S = Operands3(c1, c2)
    /\ pc = "ready"
    /\ in = EmptyStore
    /\ out = NoOut

\* n4 := &BigFloat{}; n4.Add(n2, n1) after n3.Add(n1, n2); out.made.dst is
\* the handle of n4
DoAddSwapped ==
    /\ pc = "done" /\ out.op = "Add" /\ out.dst = 3
    /\ S' = CallAdd(NewObj(S, ZeroValue), Len(S.obj) + 1, 2, 1)
    /\ out' = [out EXCEPT !.made = [op |-> "Add", dst |-> Len(S.obj) + 1, err |-> FALSE]]
    /\ pc' = "swapped"
    /\ UNCHANGED in

NextAdd == DoAdd \/ DoAddSwapped

SpecAdd == InitTerms /\ [][NextAdd]_vars

\* The program: c := n1.Compare(n2) or n1.CompareAbs(n2), then the same call
\* with the operands exchanged; out.arg is the first result, out.made.cmp
\* the second

\* n1.Compare(n2)
DoCompare ==
    /\ pc = "ready"
    /\ out' = [NoOut EXCEPT !.op = "Compare", !.arg = CallCompare(S, 1, 2), !.steps = 1]
    /\ in' = S
    /\ pc' = "done"
    /\ UNCHANGED S

\* n1.CompareAbs(n2)
DoCompareAbs ==
    /\ pc = "ready"
    /\ out' = [NoOut EXCEPT !.op = "CompareAbs", !.arg = CallCompareAbs(S, 1, 2),
                            !.steps = 1]
    /\ in' = S
    /\ pc' = "done"
    /\ UNCHANGED S

\* n2.Compare(n1) or n2.CompareAbs(n1), the method of the first call
DoCompareSwapped ==
    /\ pc = "done" /\ out.op \in {"Compare", "CompareAbs"}
    /\ out' = [out EXCEPT !.steps = 2,
                          !.made = [op |-> out.op,
                                    cmp |-> IF out.op = "Compare" THEN CallCompare(S, 2, 1)
                                            ELSE CallCompareAbs(S, 2, 1)]]
    /\ pc' = "swapped"
    /\ UNCHANGED <<S, in>>

NextCmp == DoCompare \/ DoCompareAbs \/ DoCompareSwapped

SpecCmp == InitTerms /\ [][NextCmp]_vars

\* The program: n3.Sub(n1, n2); n4 := n2.Copy(); n4.Neg(); n5 := &BigFloat{};
\* n5.Add(n1, n4), and on another run n3.Sub(n1, n1).

\* n4 := n2.Copy(); n4.Neg(); out.arg is the handle of n4
DoNegCopy ==
    /\ pc = "done" /\ out.op = "Sub" /\ out.dst = 3
    /\ S' = CallNeg(Copy(S, 2), Len(S.obj) + 1)
    /\ out' = [out EXCEPT !.arg = Len(S.obj) + 1]
    /\ pc' = "negated"
    /\ UNCHANGED in

\* n5 := &BigFloat{}; n5.Add(n1, n4); out.made.dst is the handle of n5
DoAddNegated ==
    /\ pc = "negated"
    /\ S' = CallAdd(NewObj(S, ZeroValue), Len(S.obj) + 1, 1, out.arg)
    /\ out' = [out EXCEPT !.made = [op |-> "Add", dst |-> Len(S.obj) + 1, err |-> FALSE]]
    /\ pc' = "added"
    /\ UNCHANGED in

\* n3.Sub(n1, n1)
DoSubSelf ==
    /\ pc = "ready"
    /\ S' = CallSub(S, 3, 1, 1)
    /\ out' = [NoOut EXCEPT !.op = "SubSelf", !.dst = 3, !.steps = 1]
    /\ in' = S
    /\ pc' = "done"

NextSub == DoSub \/ DoNegCopy \/ DoAddNegated \/ DoSubSelf

SpecSub == InitTerms /\ [][NextSub]_vars

\* The program: n3.Mul(n1, n2); n4 := &BigFloat{}; n4.Mul(n2, n1).

\* n4 := &BigFloat{}; n4.Mul(n2, n1); out.made.dst is the handle of n4
DoMulSwapped ==
    /\ pc = "done" /\ out.op = "Mul" /\ out.dst = 3
    /\ S' = CallMul(NewObj(S, ZeroValue), Len(S.obj) + 1, 2, 1)
    /\ out' = [out EXCEPT !.made = [op |-> "Mul", dst |-> Len(S.obj) + 1, err |-> FALSE]]
    /\ pc' = "swapped"
    /\ UNCHANGED in

NextMul == DoMul \/ DoMulSwapped

SpecMul == InitTerms /\ [][NextMul]_vars

\* ---------------------------------------------------------------- mutators
\* The program: n1 is any operand, n2 one of a few; at most MaxSteps calls are
\* made.  The first may produce a new value (Copy, Set, an arithmetic
\* operation); mutators are called on any value the program holds.
MaxSteps == 2
MaxShift == 1

\* 0, 1 and a negative fraction
Few == {Lit(1, 0, 0), Lit(1, 1, 0), Lit(-1, MaxMant, MaxDec)}

\* The integer literals among the operands are the strings SetInt64 passes to SetString
InitFew ==
    /\ \E c1 \in Operands, c2 \in Few : S = Operands3(c1, c2)
    /\ pc = "ready"
    /\ in = EmptyStore
    /\ out = NoOut

\* n4 := n1.Copy()
DoCopy ==
    /\ pc = "ready"
    /\ S' = Copy(S, 1)
    /\ out' = [NoOut EXCEPT !.op = "Copy", !.dst = Len(S.obj) + 1, !.steps = 1,
                            !.made = [op |-> "Copy", dst |-> Len(S.obj) + 1, err |-> FALSE],
                            !.pair = {1, Len(S.obj) + 1}]
    /\ in' = S
    /\ pc' = "done"

\* n3.Set(n1)
DoSet ==
    /\ pc = "ready"
    /\ S' = Set(S, 3, 1)
    /\ out' = [NoOut EXCEPT !.op = "Set", !.dst = 3, !.steps = 1,
                            !.made = [op |-> "Set", dst |-> 3, err |-> FALSE],
                            !.pair = {1, 3}]
    /\ in' = S
    /\ pc' = "done"

\* A further call is made unless the program has panicked
CanCall == ~S.panic /\ out.steps < MaxSteps

\* The record kept of the call t.name(arg)
Called(name, t, arg, err) ==
    [out EXCEPT !.op = name, !.dst = t, !.arg = arg, !.err = err, !.steps = @ + 1]

\* Multipliers of MulInt64: the shortcuts 0, 1, -1, the powers of ten and others
Factors == {0, 1, -1, 2, -2, 10, -10}

\* Texts of SetString on a value already set: operand literals followed by one character
Suffixed ==
    {Append(Lit(1, m, k), ch) :
        m \in {0, MaxMant}, k \in 0..MaxDec, ch \in {ChDot, ChMinus, ChLowerE, Ch5, ChLowerA}}

\* t.SetString(s)
DoSetStringAgain ==
    LET Returned(res, t) == S' = res.S /\ out' = Called("SetString", t, 0, res.err)
    IN  /\ CanCall
        /\ \E t \in out.pair, cs \in Suffixed : Returned(CallSetString(S, t, cs), t)
        /\ in' = S
        /\ pc' = "done"

\* t.SetDecimals(n)
DoSetDecimals ==
    /\ CanCall
    /\ \E t \in out.pair, n \in 0..MaxShift :
          S' = CallSetDecimals(S, t, n) /\ out' = Called("SetDecimals", t, n, FALSE)
    /\ in' = S
    /\ pc' = "done"

\* t.Mul10(n)
DoMul10 ==
    /\ CanCall
    /\ \E t \in out.pair, n \in 0..MaxShift :
          S' = CallMul10(S, t, n) /\ out' = Called("Mul10", t, n, FALSE)
    /\ in' = S
    /\ pc' = "done"

\* t.Div10(n)
DoDiv10 ==
    /\ CanCall
    /\ \E t \in out.pair, n \in 0..MaxShift :
          S' = CallDiv10(S, t, n) /\ out' = Called("Div10", t, n, FALSE)
    /\ in' = S
    /\ pc' = "done"

\* t.MulInt64(n)
DoMulInt64 ==
    /\ CanCall
    /\ \E t \in out.pair, n \in Factors :
          S' = CallMulInt64(S, t, n) /\ out' = Called("MulInt64", t, n, FALSE)
    /\ in' = S
    /\ pc' = "done"

\* t.Sign(s)
DoSign ==
    /\ CanCall
    /\ \E t \in out.pair, s \in {1, -1} :
          S' = CallSign(S, t, s) /\ out' = Called("Sign", t, s, FALSE)
    /\ in' = S
    /\ pc' = "done"

\* t.Neg()
DoNeg ==
    /\ CanCall
    /\ \E t \in out.pair : S' = CallNeg(S, t) /\ out' = Called("Neg", t, 0, FALSE)
    /\ in' = S
    /\ pc' = "done"

\* t.Abs()
DoAbs ==
    /\ CanCall
    /\ \E t \in out.pair : S' = CallAbs(S, t) /\ out' = Called("Abs", t, 0, FALSE)
    /\ in' = S
    /\ pc' = "done"

\* t.Frac()
DoFrac ==
    /\ CanCall
    /\ \E t \in out.pair : S' = CallFrac(S, t) /\ out' = Called("Frac", t, 0, FALSE)
    /\ in' = S
    /\ pc' = "done"

\* t.Round(n)
DoRound ==
    /\ CanCall
    /\ \E t \in out.pair, n \in -1..MaxShift :
          S' = CallRound(S, t, n) /\ out' = Called("Round", t, n, FALSE)
    /\ in' = S
    /\ pc' = "done"

\* t.Trunc() and t.Trunc(WithDecimalPlaces(n))
DoTrunc ==
    /\ CanCall
    /\ \E t \in out.pair : \E n \in (-1..MaxShift) \cup {S.obj[t].Decimals} :
          S' = CallTrunc(S, t, n) /\ out' = Called("Trunc", t, n, FALSE)
    /\ in' = S
    /\ pc' = "done"

NextMut ==
    \/ DoCopy \/ DoSet \/ DoAdd \/ DoSub \/ DoMul \/ DoDiv \/ DoDivModInto
    \/ DoSetDecimals \/ DoMul10 \/ DoDiv10 \/ DoMulInt64 \/ DoSign \/ DoNeg \/ DoAbs
    \/ DoFrac \/ DoRound \/ DoTrunc

SpecMut == InitFew /\ [][NextMut]_vars

NextErr == DoSetStringAgain \/ DoTrunc \/ DoRound \/ DoDiv \/ DoDivModInto

SpecErr == InitFew /\ [][NextErr]_vars

\* ---------------------------------------------------------------- rounding
\* The program: n1 is parsed from a literal with up to MaxDigits mantissa digits
\* among 0, 4, 5, 9 and up to MaxRoundDec decimals; then one call of Round or
\* Trunc with a count up to MaxCount.
MaxDigits == 3
MaxRoundDec == 2
MaxCount == 3

RoundMants ==
    {DecValue(ds) : ds \in UNION {[1..n -> {Ch0, Ch5 - 1, Ch5, Ch9}] : n \in 1..MaxDigits}}

RoundLits == {Lit(sg, m, k) : sg \in {1, -1}, m \in RoundMants, k \in 0..MaxRoundDec}

InitOne ==
    /\ \E c \in RoundLits : S = CallSetString(NewObj(EmptyStore, ZeroValue), 1, c).S
    /\ pc = "ready"
    /\ in = EmptyStore
    /\ out = NoOut

\* n1.Round(n)
DoRoundTo ==
    /\ pc = "ready"
    /\ \E n \in 0..MaxCount :
          S' = CallRound(S, 1, n) /\ out' = Called("Round", 1, n, FALSE)
    /\ in' = S
    /\ pc' = "done"

\* n1.Trunc(WithDecimalPlaces(n))
DoTruncTo ==
    /\ pc = "ready"
    /\ \E n \in 0..MaxCount :
          S' = CallTrunc(S, 1, n) /\ out' = Called("Trunc", 1, n, FALSE)
    /\ in' = S
    /\ pc' = "done"

\* n1.Trunc()
DoTruncPlain ==
    /\ pc = "ready"
    /\ S' = CallTrunc(S, 1, S.obj[1].Decimals)
    /\ out' = Called("TruncPlain", 1, S.obj[1].Decimals, FALSE)
    /\ in' = S
    /\ pc' = "done"

NextRound == DoRoundTo \/ DoTruncTo \/ DoTruncPlain

SpecRound == InitOne /\ [][NextRound]_vars

\* The program: n1 and n2 are parsed; one of Add, Sub, Mul, Round, Trunc may
\* follow; then n := &BigFloat{}; n.SetString(x.String()) for the value x
\* the call wrote (or x = n1, n2 when no call was made).  out.made: src and
\* dst are the handles of x and n, text is x.String()
DoReparse ==
    LET Parsed(res, x, n, text) ==
            /\ S' = res.S
            /\ out' = [out EXCEPT !.made = [op |-> "SetString", src |-> x, dst |-> n,
                                            text |-> text, err |-> res.err]]
        Shown(text, x) ==
            IF text.panic
            THEN /\ S' = [S EXCEPT !.panic = TRUE]
                 /\ out' = [out EXCEPT !.made = [op |-> "String", src |-> x, dst |-> 0,
                                                 text |-> <<>>, err |-> FALSE]]
            ELSE Parsed(CallSetString(NewObj(S, ZeroValue), Len(S.obj) + 1, text.str),
                        x, Len(S.obj) + 1, text.str)
    IN  /\ pc \in {"ready", "done"}
        /\ \E x \in (IF pc = "ready" THEN {1, 2} ELSE {out.dst}) : Shown(CallString(S, x), x)
        /\ pc' = "reparsed"
        /\ UNCHANGED in

NextStr ==
    DoAdd \/ DoSub \/ DoMul \/ DoRoundTo \/ DoTruncTo \/ DoTruncPlain \/ DoReparse

\* Literals with an exponent: 5, 0.5 and 0.05 followed by e1 or e-1
PoweredLits ==
    {Lit(1, 5, k) \o <<ChLowerE>> \o ex : k \in 0..MaxTermDec,
                                          ex \in {<<Ch0 + 1>>, <<ChMinus, Ch0 + 1>>}}

\* n1 is parsed from a term or from a literal with an exponent, n2 from a term
InitStr ==
    /\ \E c1 \in Terms \cup PoweredLits, c2 \in Terms : S = Operands3(c1, c2)
    /\ pc = "ready"
    /\ in = EmptyStore
    /\ out = NoOut

SpecStr == InitStr /\ [][NextStr]_vars

\* The program: n1 is parsed; then n1.Mul10(n) and n1.Div10(n) after it, or
\* n1.Div10(n), or n1.Pow10(n)

\* n1.Mul10(n)
DoMul10By ==
    /\ pc = "ready"
    /\ \E n \in 0..MaxCount : S' = CallMul10(S, 1, n) /\ out' = Called("Mul10", 1, n, FALSE)
    /\ in' = S
    /\ pc' = "done"

\* n1.Div10(n) after n1.Mul10(n)
DoDiv10Back ==
    /\ pc = "done" /\ out.op = "Mul10"
    /\ S' = CallDiv10(S, 1, out.arg)
    /\ out' = [out EXCEPT !.steps = 2]
    /\ pc' = "back"
    /\ UNCHANGED in

\* n1.Div10(n)
DoDiv10By ==
    /\ pc = "ready"
    /\ \E n \in 0..MaxCount : S' = CallDiv10(S, 1, n) /\ out' = Called("Div10", 1, n, FALSE)
    /\ in' = S
    /\ pc' = "done"

\* n1.Pow10(n)
DoPow10 ==
    /\ pc = "ready"
    /\ \E n \in -MaxCount..MaxCount :
          S' = CallPow10(S, 1, n) /\ out' = Called("Pow10", 1, n, FALSE)
    /\ in' = S
    /\ pc' = "done"

NextShift == DoMul10By \/ DoDiv10Back \/ DoDiv10By \/ DoPow10

SpecShift == InitOne /\ [][NextShift]_vars

\* The program: n1, n2 are parsed and n3 := &BigFloat{}; then one call of an
\* arithmetic method into n1, n2 or n3, of Compare or CompareAbs, of IsInt64
\* or of String.  The methods that return a value leave it in out.arg
\* (IsInt64: 1 for true) or out.made.text.

\* t.IsInt64(n)
DoIsInt64 ==
    /\ pc = "ready"
    /\ \E t \in {1, 2}, n \in {0, 1} :
          out' = [NoOut EXCEPT !.op = "IsInt64", !.pair = {t}, !.steps = 1,
                              !.arg = IF CallIsInt64(S, t, n) THEN 1 ELSE 0]
    /\ in' = S
    /\ pc' = "done"
    /\ UNCHANGED S

\* t.String()
DoString ==
    LET Shown(text, t) ==
            /\ S' = [S EXCEPT !.panic = text.panic]
            /\ out' = [NoOut EXCEPT !.op = "String", !.pair = {t}, !.steps = 1,
                                    !.made = [op |-> "String", text |-> text.str]]
    IN  /\ pc = "ready"
        /\ \E t \in {1, 2} : Shown(CallString(S, t), t)
        /\ in' = S
        /\ pc' = "done"

NextFrame ==
    \/ DoAdd \/ DoSub \/ DoMul \/ DoDiv \/ DoDivModInto
    \/ DoCompare \/ DoCompareAbs \/ DoIsInt64 \/ DoString

SpecFrame == Init /\ [][NextFrame]_vars

\* ---------------------------------------------------------------- values
\* The number written by the digits bs, the decimal point ignored
Mant(v) == DecValue(v.digits)

AllZero(v) == \A i \in 1..Len(v.digits) : v.digits[i] = Ch0

\* The operands before the call and the results after it
OpA == View(in, 1)
OpB == View(in, 2)
Quot == View(S, 3)
Rem == View(S, out.r)

\* a / b = NumA / DenB as a quotient of naturals
NumA == Mant(OpA) * Pow10Int(OpB.Decimals)
DenB == Mant(OpB) * Pow10Int(OpA.Decimals)

\* Long division of naturals: remainder after k fractional digits, and the
\* k-th fractional digit
RECURSIVE RefRem(_, _, _)
RefRem(A, B, k) == IF k = 0 THEN A % B ELSE (10 * RefRem(A, B, k - 1)) % B

RefDigit(A, B, k) == (10 * RefRem(A, B, k - 1)) \div B

\* The least k at which the expansion of A / B has ended (remainder 0) or has
\* closed its first period (the remainder after k digits was seen before)
RECURSIVE RefStop(_, _, _)
RefStop(A, B, k) ==
    IF RefRem(A, B, k) = 0 \/ \E j \in 0..(k - 1) : RefRem(A, B, j) = RefRem(A, B, k)
    THEN k ELSE RefStop(A, B, k + 1)

\* v shows the integer part and the first v.Decimals fractional digits of A / B
ShowsExpansion(v, A, B) ==
    /\ v.Len = Len(v.digits)
    /\ v.Decimals < v.Len
    /\ DecValue(SubSeq(v.digits, 1, v.Len - v.Decimals)) = A \div B
    /\ \A k \in 1..v.Decimals : v.digits[v.Len - v.Decimals + k] - Ch0 = RefDigit(A, B, k)

\* v with its last r digits repeated forever equals A / B (r = 0: v equals A / B)
EqualsWithRepetend(v, r, A, B) ==
    /\ ShowsExpansion(v, A, B)
    /\ r >= 0 /\ r <= v.Decimals
    /\ IF r = 0 THEN RefRem(A, B, v.Decimals) = 0
       ELSE RefRem(A, B, v.Decimals) = RefRem(A, B, v.Decimals - r)

SignOf(v, sa, sb) == IF AllZero(v) THEN 1 ELSE sa * sb

\* ---------------------------------------------------------------- claims
\* C1: DivMod(a, b) with b # 0 returns q, r with |q|*|b| + r = |a|,
\* 0 <= r < |b|, and q has the sign sign(a)*sign(b), +1 when q is zero.
C1_DivModContract ==
    (pc = "done" /\ out.op = "DivMod" /\ ~AllZero(OpB)) =>
        LET D == Max(Max(OpA.Decimals, Quot.Decimals + OpB.Decimals), Rem.Decimals)
        IN  /\ ~out.err
            /\ Mant(Quot) * Mant(OpB) * Pow10Int(D - Quot.Decimals - OpB.Decimals)
                  + Mant(Rem) * Pow10Int(D - Rem.Decimals)
               = Mant(OpA) * Pow10Int(D - OpA.Decimals)
            /\ Mant(Rem) * Pow10Int(D - Rem.Decimals) < Mant(OpB) * Pow10Int(D - OpB.Decimals)
            /\ Quot.Sign = SignOf(Quot, OpA.Sign, OpB.Sign)

\* C8: Div and DivMod by a zero divisor return an error and no result, for
\* every dividend, zero included.
C8_ZeroDivisorFails ==
    (pc = "done" /\ out.op \in {"Div", "DivMod"} /\ AllZero(OpB)) =>
        (out.err /\ Quot = View(in, 3))

\* The preconditions of the auto-mode claim: a and b non-zero, decimalPlaces = -1
AutoDivDone ==
    /\ pc = "done" /\ out.op = "Div" /\ out.dp = -1
    /\ ~AllZero(OpA) /\ ~AllZero(OpB)

\* Fractional digits after which a / b has ended or closed its first period
StopAt == RefStop(NumA, DenB, 0)

\* a / b has a finite expansion
Terminates == RefRem(NumA, DenB, StopAt) = 0

\* The result and repetend length of Div describe a / b exactly
ExactOrRepeating ==
    /\ ~out.err
    /\ EqualsWithRepetend(Quot, out.rep, NumA, DenB)
    /\ Quot.Sign = OpA.Sign * OpB.Sign

\* C2 as stated: for non-zero a and b whose expansion is exact or becomes
\* periodic within maxDecimalPlaces fractional digits, Div in auto mode returns
\* v and r with v*b = a when r = 0, and v with its last r digits repeated
\* forever equal to a/b when r > 0.
C2_AutoWithinCap ==
    (AutoDivDone /\ StopAt <= out.mdp) => ExactOrRepeating

\* C2 (amended): for non-zero a and b whose expansion is exact with at most
\* maxDecimalPlaces fractional digits, or whose pre-period plus one period is
\* strictly shorter than maxDecimalPlaces, Div in auto mode returns v and r
\* with v*b = a when r = 0, and v with its last r digits repeated forever
\* equal to a/b when r > 0.
C2_AutoBelowCap ==
    (AutoDivDone /\ (IF Terminates THEN StopAt <= out.mdp ELSE StopAt < out.mdp))
        => ExactOrRepeating

\* A mixed-periodic quotient detected just below a small cap
C2_Witness ==
    /\ AutoDivDone /\ out.mdp = CapPlaces
    /\ ~Terminates /\ StopAt < out.mdp
    /\ out.rep > 0 /\ Quot.Decimals > out.rep

\* C3: for all a, b # 0 and 0 <= d < maxDecimalPlaces, Div with
\* decimalPlaces = d returns a value with exactly d fractional digits equal to
\* a/b rounded half-up in magnitude at the d-th place, and repetend length 0.
C3_FixedHalfUp ==
    (pc = "done" /\ out.op = "Div" /\ out.dp >= 0 /\ out.dp < out.mdp /\ ~AllZero(OpB)) =>
        /\ ~out.err
        /\ out.rep = 0
        /\ Quot.Decimals = out.dp
        /\ Quot.Len = Len(Quot.digits) /\ Quot.Decimals < Quot.Len
        /\ Mant(Quot) = (2 * NumA * Pow10Int(out.dp) + DenB) \div (2 * DenB)
        /\ Quot.Sign = SignOf(Quot, OpA.Sign, OpB.Sign)

\* A quotient whose d-th digit was rounded up
C3_Witness ==
    /\ pc = "done" /\ out.op = "Div" /\ out.dp >= 0 /\ out.dp < out.mdp /\ ~AllZero(OpB)
    /\ ~out.err
    /\ Mant(Quot) = (NumA * Pow10Int(out.dp)) \div DenB + 1

\* The receiver of the last call, after it and before it
Res == View(S, out.dst)
Before == View(in, out.dst)

\* Mantissa value, fractional digits and signed exponent of the literal parsed
LitMant == DecValue(out.made.mant.ip \o out.made.mant.fp)
LitFrac == Len(out.made.mant.fp)
LitExp == (IF out.made.ex.sign = <<ChMinus>> THEN -1 ELSE 1) * DecValue(out.made.ex.digits)

\* C4: every accepted literal with mantissa m (k fractional digits) and signed
\* exponent e parses to m*10^e: for e >= 0 the decimal count is max(k - e, 0)
\* (max(e - k, 0) zeros appended), for e < 0 it is k + |e| with zeros prepended
\* as needed to keep one integer digit; Analyze does not panic on it.
C4_ExponentFolding ==
    (pc = "done" /\ out.op = "SetString" /\ out.made.ex.mark # <<>> /\ ~out.err) =>
        /\ ~S.panic
        /\ Res.Len = Len(Res.digits)
        /\ Res.Decimals < Res.Len
        /\ Res.Decimals = (IF LitExp >= 0 THEN Max(LitFrac - LitExp, 0) ELSE LitFrac - LitExp)
        /\ Mant(Res) * Pow10Int(LitFrac) * Pow10Int(-LitExp)
              = LitMant * Pow10Int(LitExp) * Pow10Int(Res.Decimals)
        /\ Res.Sign = (IF out.made.mant.sign = <<ChMinus>> THEN -1 ELSE 1)

\* C5: Add, Sub, Mul, Div and DivMod called with the destination n1 or n2 give
\* the same digits, sign, decimal count, repetend length, error and (DivMod)
\* remainder as the same call with the new destination n3.
C5_AliasedAsFresh ==
    (pc = "done" /\ out.steps = 1 /\ out.op \in {"Add", "Sub", "Mul", "Div", "DivMod"}
        /\ out.dst \in {1, 2}) =>
        /\ S.panic = out.fresh.panic
        /\ out.err = out.fresh.err
        /\ ~out.err =>
              /\ Res = out.fresh.v
              /\ out.rep = out.fresh.rep
              /\ out.op = "DivMod" => View(S, out.r) = out.fresh.rem

\* The mutators of the ownership claim
OwnMutators ==
    {"Trunc", "SetDecimals", "Round", "Frac", "Mul10", "Div10", "Sign", "Neg", "Abs"}

\* C6: after n4 := n1.Copy(), n3.Set(n1) or an arithmetic result written to n3,
\* a mutator applied to one of the values leaves digits, sign, decimal count
\* and length of the others as they were.
C6_NoSharedStorage ==
    (pc = "done" /\ out.steps = 2
        /\ out.made.op \in {"Copy", "Set", "Add", "Sub", "Mul", "Div", "DivMod"}
        /\ out.made.dst \notin {1, 2} /\ ~out.made.err
        /\ out.op \in OwnMutators /\ ~S.panic) =>
        \A o \in out.pair \ {out.dst} :
            (o = out.made.dst \/ out.dst = out.made.dst) => View(S, o) = View(in, o)

\* The invariants of a value
WellFormed(v) ==
    /\ v.Len = Len(v.digits)
    /\ v.Len >= 1
    /\ v.Decimals >= 0 /\ v.Decimals < v.Len
    /\ v.Sign \in {1, -1}
    /\ AllZero(v) => v.Sign = 1
    /\ v.Len - v.Decimals > 1 => v.digits[1] # Ch0

\* C7: a value parsed from a literal or set by SetInt64 keeps the invariants
\* under every sequence of SetDecimals, Mul10, Div10, MulInt64, Sign, Neg, Abs,
\* Frac, Round and Trunc with arguments n >= 0.
C7_MutatorsKeepInvariants ==
    (out.made.op = "none" /\ ~S.panic) => WellFormed(View(S, 1))

\* The last call failed: an error was returned or the call panicked
Failed ==
    /\ pc = "done"
    /\ \/ out.op \in {"SetString", "Div", "DivMod"} /\ out.err
       \/ out.op \in {"Trunc", "Round"} /\ out.arg < 0 /\ S.panic

\* C9: when SetString returns a parse error, Div or DivMod a division-by-zero
\* error, or Trunc or Round rejects a negative count, the receiver has the
\* digits, sign, decimal count and length it had before the call.
C9_FailureLeavesReceiver ==
    Failed => (Res = Before /\ S.obj[out.dst] = in.obj[out.dst])

\* A non-zero value whose SetString returned an error
C9_Witness ==
    /\ Failed /\ out.op = "SetString"
    /\ ~AllZero(Before) /\ Before.Decimals > 0

\* The operands of a sum at the common scale 10^-AddScale
AddScale == Max(OpA.Decimals, OpB.Decimals)
AddA == OpA.Sign * Mant(OpA) * Pow10Int(AddScale - OpA.Decimals)
AddB == OpB.Sign * Mant(OpB) * Pow10Int(AddScale - OpB.Decimals)

\* C10: Add(a, b) has the value a + b exactly; with both operands non-zero it
\* has max(decimals(a), decimals(b)) fractional digits and the sign of the
\* operand of larger magnitude; a zero result has sign +1.
C10_AddExact ==
    (pc = "done" /\ out.op = "Add") =>
        /\ Res.Len = Len(Res.digits)
        /\ Res.Decimals < Res.Len
        /\ Res.Decimals <= AddScale
        /\ Res.Sign \in {1, -1}
        /\ Res.Sign * Mant(Res) * Pow10Int(AddScale - Res.Decimals) = AddA + AddB
        /\ (~AllZero(OpA) /\ ~AllZero(OpB)) =>
              /\ Res.Decimals = AddScale
              /\ AddA + AddB # 0 =>
                    Res.Sign = (IF AddA + AddB > 0 THEN 1 ELSE -1)
        /\ AllZero(Res) => Res.Sign = 1

\* Two non-zero operands of opposite sign, equal magnitude and different
\* decimal counts: the sum is zero written with the larger decimal count
C10_Witness ==
    /\ pc = "done" /\ out.op = "Add"
    /\ ~AllZero(OpA) /\ ~AllZero(OpB)
    /\ OpA.Decimals # OpB.Decimals
    /\ AllZero(Res) /\ Res.Decimals = AddScale /\ Res.Decimals > 0

\* The operands as signed integers at the common scale, and their magnitudes
MagA == Mant(OpA) * Pow10Int(AddScale - OpA.Decimals)
MagB == Mant(OpB) * Pow10Int(AddScale - OpB.Decimals)

\* n3.Sub(n1, n2) and n5.Add(n1, n4) with n4 the negated copy of n2 agree
SubIsAddOfNeg == View(S, out.made.dst) = View(S, 3)

\* The sign of a, or the opposite of the sign of b when |a| < |b| and the signs agree
SubSign ==
    IF OpA.Sign = OpB.Sign /\ MagA < MagB THEN -OpB.Sign ELSE OpA.Sign

\* Zero written with sign +1 and d fractional digits
IsZeroWith(v, d) ==
    /\ AllZero(v) /\ v.Sign = 1
    /\ v.Decimals = d /\ v.Len = d + 1 /\ Len(v.digits) = d + 1

\* C11 as stated: Sub(a, b) has the digits, sign and decimal count of
\* Add(a, Neg(copy of b)); its sign is the sign of a, or the opposite of the
\* sign of b when |a| < |b| and the signs agree; the difference of two equal
\* values is zero with sign +1 and max(decimals) fractional digits.
C11_SubIsAddNeg ==
    /\ pc = "added" =>
          /\ SubIsAddOfNeg
          /\ AddA # AddB => View(S, 3).Sign = SubSign
          /\ AddA = AddB => IsZeroWith(View(S, 3), AddScale)
    /\ (pc = "done" /\ out.op = "SubSelf") => IsZeroWith(View(S, 3), OpA.Decimals)

\* C11 (amended): as stated, with the zero of max(decimals) fractional digits
\* for equal non-zero values and for Sub(a, a) on one value a.
C11_SubIsAddNegNonZero ==
    /\ pc = "added" =>
          /\ SubIsAddOfNeg
          /\ AddA # AddB => View(S, 3).Sign = SubSign
          /\ (AddA = AddB /\ ~AllZero(OpA)) => IsZeroWith(View(S, 3), AddScale)
    /\ (pc = "done" /\ out.op = "SubSelf") => IsZeroWith(View(S, 3), OpA.Decimals)

\* Two negative operands with |a| < |b| and different decimal counts: the
\* difference is positive and borrows
C11_Witness ==
    /\ pc = "added"
    /\ OpA.Sign = -1 /\ OpB.Sign = -1 /\ MagA < MagB
    /\ OpA.Decimals # OpB.Decimals
    /\ View(S, 3).Sign = 1 /\ SubIsAddOfNeg
    /\ Mant(View(S, 3)) = MagB - MagA

\* The product of the operands as a signed integer at the scale 10^-MulScale
MulScale == OpA.Decimals + OpB.Decimals
MulAB == OpA.Sign * Mant(OpA) * OpB.Sign * Mant(OpB)

\* v is well formed and has the value of the product a*b
IsProduct(v) ==
    /\ v.Len = Len(v.digits)
    /\ v.Decimals >= 0 /\ v.Decimals < v.Len /\ v.Decimals <= MulScale
    /\ v.Sign \in {1, -1}
    /\ v.Sign * Mant(v) * Pow10Int(MulScale - v.Decimals) = MulAB
    /\ AllZero(v) => v.Sign = 1

\* v is +1 or -1 in value
IsUnit(v) == Mant(v) = Pow10Int(v.Decimals)

\* Both operands are +1 or -1 in value
BothUnits == IsUnit(OpA) /\ IsUnit(OpB)

\* Value, sign and zero rule of Mul(a, b) and of Mul(b, a), Mul(a, 1) = a and
\* Mul(a, 0) = 0 with max(decimals) fractional digits
MulExact ==
    /\ IsProduct(View(S, 3))
    /\ IsProduct(View(S, out.made.dst))
    /\ MulAB = 0 => IsZeroWith(View(S, 3), Max(OpA.Decimals, OpB.Decimals))

\* C12 as stated: Mul(a, b) has the value a*b exactly with sign
\* sign(a)*sign(b), +1 when the product is zero; Mul(a, b) and Mul(b, a) give
\* the same digits, sign and decimal count; Mul(a, 1) = a; Mul(a, 0) is zero
\* with max(decimals(a), decimals(b)) fractional digits.
C12_MulExactCommutes ==
    pc = "swapped" =>
        /\ MulExact
        /\ View(S, out.made.dst) = View(S, 3)

\* C12 (amended): as stated, with the same digits, sign and decimal count of
\* Mul(a, b) and Mul(b, a) unless both operands are +1 or -1 in value.
C12_MulExactCommutesButUnits ==
    pc = "swapped" =>
        /\ MulExact
        /\ ~BothUnits => View(S, out.made.dst) = View(S, 3)

\* A negative product of two fractions with carries and a trimmed zero
C12_Witness ==
    /\ pc = "swapped"
    /\ OpA.Decimals > 0 /\ OpB.Decimals > 0 /\ MulAB < 0
    /\ Mant(OpA) > 9 /\ Mant(OpB) > 9 /\ ~BothUnits
    /\ View(S, 3).Decimals < MulScale /\ View(S, 3).Sign = -1
    /\ View(S, out.made.dst) = View(S, 3)

\* C13: for non-zero operands a and b, neither +1 nor -1, Mul(a, b) has
\* exactly decimals(a) + decimals(b) fractional digits, trailing zeros
\* included (7.005 * 4 = 28.020).
C13_MulKeepsDecimals ==
    (pc = "done" /\ out.op = "Mul" /\ out.dst = 3
        /\ ~AllZero(OpA) /\ ~AllZero(OpB) /\ ~IsUnit(OpA) /\ ~IsUnit(OpB)) =>
        /\ Res.Decimals = MulScale
        /\ Res.Len = Len(Res.digits)
        /\ Res.Sign * Mant(Res) = MulAB

\* The magnitude of the receiver before a call of Round(n), cut after n
\* fractional digits, and the first digit dropped
CutAt == Mant(Before) \div Pow10Int(Before.Decimals - out.arg)
Dropped == (Mant(Before) \div Pow10Int(Before.Decimals - out.arg - 1)) % 10

\* The magnitude of x rounded half-up at the n-th place, at the scale 10^-n
HalfUp == CutAt + (IF Dropped >= 5 THEN 1 ELSE 0)

\* Round(n) was called with n below the decimal count
RoundedBelow == pc = "done" /\ out.op = "Round" /\ out.arg < Before.Decimals

\* C14: for every well-formed x and n >= 0, Round(n) leaves the value
\* unchanged when n >= decimals(x), and otherwise sets it to x rounded half-up
\* in magnitude at the n-th place, carries included; a zero result has sign +1.
C14_RoundHalfUp ==
    (pc = "done" /\ out.op = "Round") =>
        /\ ~S.panic
        /\ Res.Len = Len(Res.digits) /\ Res.Decimals >= 0 /\ Res.Decimals < Res.Len
        /\ Res.Sign \in {1, -1}
        /\ AllZero(Res) => Res.Sign = 1
        /\ IF out.arg >= Before.Decimals
           THEN /\ Mant(Res) * Pow10Int(Before.Decimals) = Mant(Before) * Pow10Int(Res.Decimals)
                /\ Res.Sign = Before.Sign
           ELSE /\ Res.Decimals <= out.arg
                /\ Mant(Res) * Pow10Int(out.arg - Res.Decimals) = HalfUp
                /\ ~AllZero(Res) => Res.Sign = Before.Sign

\* A negative fraction rounded up with a carry into the integer part
C14_Witness ==
    /\ RoundedBelow
    /\ Before.Sign = -1 /\ Dropped >= 5 /\ out.arg > 0
    /\ CutAt % 10 = 9 /\ Res.Sign = -1
    /\ Mant(Res) * Pow10Int(out.arg - Res.Decimals) = CutAt + 1
    /\ Len(Res.digits) - Res.Decimals > Len(Before.digits) - Before.Decimals

\* C15: Round(n) with n below the decimal count keeps the stored decimal
\* count: the digits after position n become '0' (round(1.25, 1) = 1.30).
C15_RoundKeepsDecimals ==
    RoundedBelow =>
        /\ Res.Decimals = Before.Decimals
        /\ Res.Len = Len(Res.digits)
        /\ \A i \in 1..(Res.Decimals - out.arg) : Res.digits[Res.Len + 1 - i] = Ch0

\* Digits of the integer part of v
IntDigits(v) == SubSeq(v.digits, 1, Len(v.digits) - v.Decimals)

\* Trunc was called, with or without the option
Truncated == pc = "done" /\ out.op \in {"Trunc", "TruncPlain"}

\* C16: for every well-formed x and n >= 0, Trunc(WithDecimalPlaces(n)) keeps
\* the integer-part digits of x, sets every fractional digit to '0', gives the
\* value exactly n fractional digits and keeps the sign unless the result is
\* zero, which has sign +1; Trunc() without option uses the current decimal
\* count.
C16_TruncZeroesFraction ==
    Truncated =>
        /\ ~S.panic
        /\ out.op = "TruncPlain" => out.arg = Before.Decimals
        /\ Res.Decimals = out.arg
        /\ Res.Len = Len(Res.digits)
        /\ Res.Len = Len(IntDigits(Before)) + out.arg
        /\ IntDigits(Res) = IntDigits(Before)
        /\ \A i \in 1..out.arg : Res.digits[Res.Len + 1 - i] = Ch0
        /\ Res.Sign = (IF AllZero(Res) THEN 1 ELSE Before.Sign)

\* A negative fraction below 1 truncated to more decimals than it had: +0.000
C16_Witness ==
    /\ Truncated /\ out.op = "Trunc"
    /\ Before.Sign = -1 /\ ~AllZero(Before) /\ Before.Decimals > 0
    /\ out.arg > Before.Decimals
    /\ AllZero(Res) /\ Res.Sign = 1 /\ Res.Decimals = out.arg

\* The text analysed, its spaces removed
NotSpace(c) == c # ChSpace
Unspaced == SelectSeq(out.made.text, NotSpace)

\* The grammar [sign] digits* ['.' digits*] [('E'|'e') [sign] digits+] with at
\* least one mantissa digit, as an automaton: the state after reading c in q
GrammarStep(q, c) ==
    LET sign == c \in {ChPlus, ChMinus}
        digit == c >= Ch0 /\ c <= Ch9
        mark == c \in {ChUpperE, ChLowerE}
    IN  CASE q = "start" /\ sign -> "signed"
          [] q \in {"start", "signed", "int"} /\ digit -> "int"
          [] q \in {"start", "signed"} /\ c = ChDot -> "point"
          [] q = "int" /\ c = ChDot -> "frac"
          [] q \in {"point", "frac"} /\ digit -> "frac"
          [] q \in {"int", "frac"} /\ mark -> "marked"
          [] q = "marked" /\ sign -> "esigned"
          [] q \in {"marked", "esigned", "exp"} /\ digit -> "exp"
          [] OTHER -> "bad"

RECURSIVE GrammarRun(_, _, _)
GrammarRun(q, cs, i) ==
    IF i > Len(cs) THEN q ELSE GrammarRun(GrammarStep(q, cs[i]), cs, i + 1)

MatchesGrammar(cs) == GrammarRun("start", cs, 1) \in {"int", "frac", "exp"}

\* C17: Analyze returns an error for every input that, spaces removed, does
\* not match the grammar: a sign only before the first mantissa token or
\* directly after the exponent marker, no second sign, second '.', '.' in the
\* exponent, second 'E', exponent without digits or other character.
C17_RejectsOutsideGrammar ==
    (pc = "done" /\ out.op = "Analyze" /\ ~MatchesGrammar(Unspaced)) => out.err

\* Number of characters of cs before the exponent marker
MantissaEnd(cs) ==
    IF \E i \in 1..Len(cs) : cs[i] \in {ChUpperE, ChLowerE}
    THEN (CHOOSE i \in 1..Len(cs) :
              /\ cs[i] \in {ChUpperE, ChLowerE}
              /\ \A j \in 1..(i - 1) : cs[j] \notin {ChUpperE, ChLowerE}) - 1
    ELSE Len(cs)

\* The text matches the grammar and every mantissa digit is '0'
ZeroLiteral ==
    /\ pc = "done" /\ out.op = "Analyze"
    /\ MatchesGrammar(Unspaced)
    /\ \A i \in 1..MantissaEnd(Unspaced) : Unspaced[i] \notin (Ch0 + 1)..Ch9

\* C18: every literal that matches the grammar and whose mantissa digits are
\* all zero, with or without sign, fraction or exponent (-0, -0.0, 000.00,
\* -0e5), is accepted and parses to a zero value with sign +1.
C18_ZeroLiteralsParse ==
    ZeroLiteral =>
        /\ ~out.err /\ ~S.panic
        /\ AllZero(out.made.a) /\ out.made.a.Sign = 1
        /\ out.made.a.Len = Len(out.made.a.digits)
        /\ out.made.a.Decimals < out.made.a.Len

\* The divisor scaled by 10^(decimals(a) + decimals(b)) is 1
ScaledDivisorIsOne == Mant(OpB) = 1 /\ OpA.Decimals = 0

\* n3.DivMod(n1, n2) was called with a non-zero divisor
DivModDone == pc = "done" /\ out.op = "DivMod" /\ out.dst = 3 /\ ~AllZero(OpB)

TookShortcut ==
    /\ pc = "done" /\ out.op \in {"Div", "DivMod"} /\ out.dst = 3
    /\ ~AllZero(OpB)
    /\ AllZero(OpA) \/ ScaledDivisorIsOne

\* The quotient of a shortcut: 0 with max(0, decimalPlaces) fractional digits,
\* or the shifted dividend with the sign sign(a)*sign(b)
ShortcutQuotient ==
    /\ ~out.err /\ out.rep = 0
    /\ IF AllZero(OpA) THEN IsZeroWith(Quot, Max(0, out.dp))
       ELSE /\ Quot.Sign = OpA.Sign * OpB.Sign
            /\ Quot.Decimals = Max(0, out.dp) /\ Quot.Len = Len(Quot.digits)
            /\ Mant(Quot) = Mant(OpA) * Pow10Int(OpB.Decimals) * Pow10Int(Quot.Decimals)

\* C20: on a zero dividend (b # 0) or a shifted divisor of 1, Div and DivMod
\* return the quotient 0 with max(0, decimalPlaces) fractional digits,
\* respectively the shifted dividend with sign sign(a)*sign(b), the repetend
\* length 0 and, for DivMod, a remainder that is a well-formed zero (digits
\* "0", sign +1, length 1).
C20_ShortcutResults ==
    TookShortcut =>
        /\ ShortcutQuotient
        /\ out.op = "DivMod" => (Rem.digits = <<Ch0>> /\ Rem.Sign = 1 /\ Rem.Len = 1)

\* C21: every value written by Div or DivMod, in auto mode, in fixed mode and
\* when the loop was stopped by the maxDecimalPlaces cap, has the sign
\* sign(a)*sign(b) when some digit is non-zero and +1 when all digits are '0'.
C21_QuotientSign ==
    (pc = "done" /\ out.op \in {"Div", "DivMod"} /\ out.dst = 3 /\ ~out.err) =>
        Quot.Sign = SignOf(Quot, OpA.Sign, OpB.Sign)

\* Div or DivMod into n3 ran the long-division loop (no shortcut, b # 0)
LoopRan ==
    /\ pc = "done" /\ out.op \in {"Div", "DivMod"} /\ out.dst = 3
    /\ ~AllZero(OpA) /\ ~AllZero(OpB) /\ ~ScaledDivisorIsOne

\* Loop iterations that consume a digit of the scaled dividend, and the most
\* iterations that can follow them: the goal decimalPlaces + 1 is met at the
\* top of the next iteration, the cap at the end of the same one
IntIters == Max(Len(FormatNat(NumA)) - Len(FormatNat(DenB)) + 1, 0)
FracIters == IF out.dp >= 0 THEN Min(out.dp + 2, out.mdp) ELSE out.mdp

\* C22: for all a, all b # 0 and every cap maxDecimalPlaces >= 1 the
\* long-division loop of Div and DivMod ends after at most one iteration per
\* digit of the scaled dividend plus the iterations the goal or the cap allow,
\* and in auto mode the result has at most maxDecimalPlaces fractional digits.
C22_LoopEndsWithinCap ==
    (LoopRan /\ out.mdp >= 1) =>
        /\ ~out.err
        /\ out.iters >= 1 /\ out.iters <= IntIters + FracIters
        /\ out.dp = -1 => Quot.Decimals <= out.mdp

\* An auto-mode division of an endless expansion that the cap stopped
C22_Witness ==
    /\ LoopRan /\ out.dp = -1 /\ out.mdp < DefaultMaxDecimalPlaces
    /\ ~Terminates /\ out.rep = 0
    /\ Quot.Decimals = out.mdp /\ out.iters = IntIters + FracIters

\* The value of n1 and of n2 before the call, as integers in units of
\* 10^-MaxTermDec
ValA == OpA.Sign * Mant(OpA) * Pow10Int(MaxTermDec - OpA.Decimals)
ValB == OpB.Sign * Mant(OpB) * Pow10Int(MaxTermDec - OpB.Decimals)
AbsInt(x) == IF x < 0 THEN -x ELSE x
Order(x, y) == IF x < y THEN -1 ELSE IF x > y THEN 1 ELSE 0

\* C23: Compare(a, b) is -1, 0 or 1 as the value of a is smaller than, equal
\* to or greater than that of b, whatever the digit lengths and trailing
\* zeros; CompareAbs does the same on |a| and |b|; and exchanging the
\* operands negates the result.
C23_CompareIsNumericOrder ==
    /\ (pc \in {"done", "swapped"} /\ out.op = "Compare") => out.arg = Order(ValA, ValB)
    /\ (pc \in {"done", "swapped"} /\ out.op = "CompareAbs") =>
           out.arg = Order(AbsInt(ValA), AbsInt(ValB))
    /\ (pc = "swapped" /\ out.op \in {"Compare", "CompareAbs"}) => out.made.cmp = -out.arg

\* Two negative operands of different lengths and decimal counts, the first
\* one smaller, compared in both orders
C23_Witness ==
    /\ pc = "swapped" /\ out.op = "Compare"
    /\ OpA.Sign = -1 /\ OpB.Sign = -1
    /\ OpA.Len # OpB.Len /\ OpA.Decimals # OpB.Decimals
    /\ out.arg = -1 /\ out.made.cmp = 1

\* x.String() was parsed into a new value; x is a parsed literal or the
\* result of Add, Sub, Mul, Round or Trunc
Reparsed ==
    /\ pc = "reparsed"
    /\ out.op \in {"none", "Add", "Sub", "Mul", "Round", "Trunc", "TruncPlain"}

\* C24: for every value x produced by parsing an accepted literal or written
\* by Add, Sub, Mul, Round or Trunc, parsing x.String() succeeds and gives the
\* digits, sign, decimal count and length of x.
C24_StringRoundTrip ==
    Reparsed =>
        /\ ~S.panic /\ out.made.op = "SetString" /\ ~out.made.err
        /\ View(S, out.made.dst) = View(S, out.made.src)

\* n3.Add(n1, n2) was called, and n4.Add(n2, n1) after it
AddDone == pc \in {"done", "swapped"} /\ out.op = "Add" /\ out.dst = 3
AddSwapped == pc = "swapped" /\ out.op = "Add"

\* b is a with the opposite sign
Opposite(a, b) ==
    /\ ~AllZero(a) /\ b.digits = a.digits /\ b.Decimals = a.Decimals /\ b.Sign = -a.Sign

\* Add(a, 0) = a and Add(a, -a) is zero, for a # 0
AddUnitAndInverse ==
    /\ (AddDone /\ ~AllZero(OpA) /\ AllZero(OpB)) => View(S, 3) = OpA
    /\ (AddDone /\ Opposite(OpA, OpB)) => IsZeroWith(View(S, 3), OpA.Decimals)

\* C25 as stated: Add(a, b) and Add(b, a) have the same digits, sign and
\* decimal count, zero operands of any decimal count included; Add(a, 0) = a;
\* Add(a, -a) is zero.
C25_AddCommutes ==
    /\ AddSwapped => View(S, out.made.dst) = View(S, 3)
    /\ (AddDone /\ AllZero(OpB)) => View(S, 3) = OpA
    /\ (AddDone /\ Opposite(OpA, OpB)) => AllZero(View(S, 3))

\* C25 (amended): Add(a, b) and Add(b, a) have the same digits, sign and
\* decimal count unless both operands are zero; when both are zero each call
\* returns its second operand.  Add(a, 0) = a for a # 0 and Add(a, -a) is zero.
C25_AddCommutesButZeros ==
    /\ (AddSwapped /\ ~(AllZero(OpA) /\ AllZero(OpB))) => View(S, out.made.dst) = View(S, 3)
    /\ (AddSwapped /\ AllZero(OpA) /\ AllZero(OpB)) =>
           (View(S, 3) = OpB /\ View(S, out.made.dst) = OpA)
    /\ AddUnitAndInverse

\* A non-zero operand with decimals added to a zero with more decimals, in
\* both orders: both sums show the non-zero operand
C25_Witness ==
    /\ AddSwapped
    /\ ~AllZero(OpA) /\ AllZero(OpB) /\ OpA.Sign = -1
    /\ OpB.Decimals > OpA.Decimals /\ OpA.Decimals > 0
    /\ View(S, out.made.dst) = OpA /\ View(S, 3) = OpA

\* The value v holds digits and is mant * 10^-dexp in magnitude
HasValue(v, mant, dexp) ==
    /\ v.Len >= 1 /\ v.Len = Len(v.digits) /\ v.Decimals >= 0
    /\ Mant(v) * Pow10Int(dexp - v.Decimals) = mant * Pow10Int(v.Decimals - dexp)

\* n1 before the first call of the program
Shifted == View(S, 1)
Unshifted == View(in, 1)

\* C26: for every x, zero included, and n >= 0, Mul10(n) sets the value to
\* x*10^n and Div10(n) to x*10^-n with the sign unchanged; Div10(n) after
\* Mul10(n) gives a value equal to x; Pow10(n) sets the value to 10^n for
\* every integer n.
C26_ShiftsAreExact ==
    /\ (pc = "done" /\ out.op = "Mul10") =>
           /\ HasValue(Shifted, Mant(Unshifted), Unshifted.Decimals - out.arg)
           /\ Shifted.Sign = Unshifted.Sign
    /\ (pc = "done" /\ out.op = "Div10") =>
           /\ HasValue(Shifted, Mant(Unshifted), Unshifted.Decimals + out.arg)
           /\ Shifted.Sign = Unshifted.Sign
    /\ (pc = "back" /\ out.op = "Mul10") =>
           /\ HasValue(Shifted, Mant(Unshifted), Unshifted.Decimals)
           /\ Shifted.Sign = Unshifted.Sign
    /\ (pc = "done" /\ out.op = "Pow10") =>
           /\ HasValue(Shifted, 1, -out.arg)
           /\ Shifted.Sign = 1

\* One entry of the log of the loop: the digit computed is in 0..9, is the
\* estimate or one less, is floor(divPart / divisor), and leaves a remainder
\* below the divisor
DigitIsExact(e, divisor) ==
    /\ e.digit \in 0..9
    /\ e.est - e.digit \in {0, 1}
    /\ e.digit = e.part \div divisor
    /\ e.rem = e.part - e.digit * divisor
    /\ 0 <= e.rem /\ e.rem < divisor

\* C27: in every iteration of the long-division loop, for divisors shorter
\* and longer than the digits used for the estimate, the quotient digit
\* obtained after at most one decrement of the estimate is in 0..9 and is
\* floor(divPart / divisor), and the new remainder is in 0..divisor-1.
C27_QuotientDigits ==
    (pc = "done" /\ ~out.err) =>
        \A k \in 1..Len(out.log) : DigitIsExact(out.log[k], DenB)

\* A divisor of more than EstimateLen digits, an estimate that was one too
\* large and an estimate that was right
C27_Witness ==
    /\ pc = "done" /\ ~out.err /\ OpB.Len > EstimateLen
    /\ \E k \in 1..Len(out.log) : out.log[k].est = out.log[k].digit + 1
    /\ \E k \in 1..Len(out.log) : out.log[k].est = out.log[k].digit /\ out.log[k].digit > 0

\* The number of fractional digits before the first period of a / b
PeriodStart ==
    CHOOSE j \in 0..(StopAt - 1) : RefRem(NumA, DenB, j) = RefRem(NumA, DenB, StopAt)

\* The result shows the shortest pre-period and one shortest period, or the
\* whole finite expansion and no repetend
MinimalRepetend ==
    /\ ~out.err
    /\ Quot.Decimals = StopAt
    /\ out.rep = (IF Terminates THEN 0 ELSE StopAt - PeriodStart)

\* The cap allows the iteration that recognises the end of the expansion
WithinCap == IF Terminates THEN StopAt <= out.mdp ELSE StopAt < out.mdp

\* C28 as stated: in auto mode the repetend length returned by Div is the
\* length of the shortest period of a/b after the shortest non-repeating
\* prefix, and 0 for a quotient that terminates.
C28_RepetendIsMinimal == AutoDivDone => MinimalRepetend

\* C28 (amended): in auto mode, when the pre-period plus one period of a/b is
\* shorter than maxDecimalPlaces (or the finite expansion not longer), the
\* repetend length returned by Div is the length of the shortest period
\* after the shortest non-repeating prefix, and 0 for a quotient that
\* terminates; otherwise the result is cut at maxDecimalPlaces fractional
\* digits and the repetend length is 0.
C28_RepetendIsMinimalBelowCap ==
    AutoDivDone =>
        IF WithinCap THEN MinimalRepetend
        ELSE ~out.err /\ out.rep = 0 /\ Quot.Decimals = out.mdp

\* A periodic quotient whose repeating remainder was already met while the
\* digits of the dividend were consumed (10 / 3: the remainder 1)
C28_Witness ==
    /\ AutoDivDone /\ WithinCap /\ ~Terminates
    /\ NumA >= 10 /\ (NumA \div 10) % DenB = RefRem(NumA, DenB, StopAt)
    /\ out.rep = StopAt - PeriodStart /\ Quot.Decimals = StopAt

\* A method was called whose destination is neither n1 nor n2: an arithmetic
\* method into n3, or a method that only returns a value
OperandsApart ==
    /\ pc = "done"
    /\ \/ out.op \in {"Add", "Sub", "Mul", "Div", "DivMod"} /\ out.dst = 3
       \/ out.op \in {"Compare", "CompareAbs", "IsInt64", "String"}

\* C29: Add, Sub, Mul, Div, DivMod, Compare, CompareAbs, IsInt64 and String,
\* called with a destination that is neither operand, leave the digits, sign,
\* decimal count and length of both operands as they were before the call.
C29_OperandsUnchanged ==
    OperandsApart => (View(S, 1) = View(in, 1) /\ View(S, 2) = View(in, 2))

\* A division into n3 that wrote into the array holding the digits of an
\* operand, behind the digits the operand shows
C29_Witness ==
    /\ OperandsApart /\ out.op \in {"Div", "DivMod"} /\ ~out.err
    /\ \E h \in {1, 2} : S.heap[in.obj[h].Norm.arr] # in.heap[in.obj[h].Norm.arr]
    /\ View(S, 1) = View(in, 1) /\ View(S, 2) = View(in, 2)

\* The integer part has no leading '0' unless it is the single digit '0'
NoLeadingZero(a) == a.Len - a.Decimals = 1 \/ a.digits[1] # Ch0

\* C30: for every literal Analyze accepts, with or without exponent,
\* Len = len(Norm) >= 1, every byte of Norm is a digit '0'..'9',
\* 0 <= Decimals with at least one integer digit, Sign is +1 or -1, and the
\* integer part has no leading '0' unless it is exactly "0".
C30_AnalyzeInvariants ==
    (pc = "done" /\ out.op = "Analyze" /\ ~out.err) =>
        /\ out.made.a.Len = Len(out.made.a.digits) /\ out.made.a.Len >= 1
        /\ \A i \in 1..Len(out.made.a.digits) : out.made.a.digits[i] \in Ch0..Ch9
        /\ out.made.a.Decimals >= 0 /\ out.made.a.Decimals < out.made.a.Len
        /\ out.made.a.Sign \in {1, -1}
        /\ NoLeadingZero(out.made.a)

====
